---- MODULE Spec2Model ----
(***************************************************************************)
(* A model of the bytecode toolchain of compiler-in-rust: the instruction  *)
(* encoding (src/code), the object model (src/object), the compiler        *)
(* (src/compiler) and the stack virtual machine (src/vm).                  *)
(*                                                                         *)
(* Byte offsets are 0-based as in the source; TLA+ sequences are 1-based,  *)
(* so the byte at offset i of ins is ins[i + 1].                           *)
(***************************************************************************)
EXTENDS Integers, Sequences, FiniteSets, TLC

(***************************************************************************)
(* Opcodes, src/code/mod.rs                                                *)
(***************************************************************************)
OP_CONSTANT == 1
OP_ADD == 2
OP_POP == 3
OP_SUB == 4
OP_MUL == 5
OP_DIV == 6
OP_TRUE == 7
OP_FALSE == 8
OP_EQUAL == 9
OP_NOT_EQUAL == 10
OP_GREATER_THAN == 11
OP_MINUS == 12
OP_BANG == 13
OP_JUMP_NOT_TRUTHY == 14
OP_JUMP == 15
OP_NULL == 16
OP_GET_GLOBAL == 17
OP_SET_GLOBAL == 18
OP_ARRAY == 19
OP_HASH == 20
OP_INDEX == 21
OP_CALL == 22
OP_RETURN_VALUE == 23
OP_RETURN == 24
OP_GET_LOCAL == 25
OP_SET_LOCAL == 26
OP_ASSIGN_GLOBAL == 27
\* Used by src/vm/run.rs and by the opcode table of the specification, but
\* not defined in src/code/mod.rs: the numbers continue the table.
OP_GET_BUILTIN == 28
OP_CLOSURE == 29
OP_GET_FREE == 30

(***************************************************************************)
(* Limits of the virtual machine, src/vm/mod.rs                            *)
(***************************************************************************)
STACK_SIZE == 2048
MAX_FRAMES == 1024

(***************************************************************************)
(* i64, the type of Integer.value: the eight bytes of the two's-complement *)
(* representation, most significant first.  The operators below are the    *)
(* arithmetic of the machine on that representation.                       *)
(***************************************************************************)
\* the i64 of a number small enough to be written in the model (|n| < 2^31)
i64(n) ==
    LET magnitude == IF n < 0 THEN -n - 1 ELSE n
        byte(k) == CASE k = 8 -> magnitude % 256
                     [] k = 7 -> (magnitude \div 256) % 256
                     [] k = 6 -> (magnitude \div 65536) % 256
                     [] k = 5 -> (magnitude \div 16777216) % 256
                     [] OTHER -> 0
        b(k) == IF n < 0 THEN 255 - byte(k) ELSE byte(k)
    IN <<b(1), b(2), b(3), b(4), b(5), b(6), b(7), b(8)>>

\* i64::MAX and i64::MIN
I64_MAX == <<127, 255, 255, 255, 255, 255, 255, 255>>

I64_MIN == <<128, 0, 0, 0, 0, 0, 0, 0>>

is_negative(a) == a[1] >= 128

\* the carry into byte k of the sum of two byte strings of equal length
RECURSIVE carry_into(_, _, _)
carry_into(a, b, k) ==
    IF k = 8 THEN 0 ELSE (a[k + 1] + b[k + 1] + carry_into(a, b, k + 1)) \div 256

\* i64::wrapping_add: the sum modulo 2^64
wrapping_add(a, b) ==
    LET s(k) == (a[k] + b[k] + carry_into(a, b, k)) % 256
    IN <<s(1), s(2), s(3), s(4), s(5), s(6), s(7), s(8)>>

\* i64::wrapping_neg: the complement plus one
wrapping_neg(a) ==
    wrapping_add(<<255 - a[1], 255 - a[2], 255 - a[3], 255 - a[4],
                   255 - a[5], 255 - a[6], 255 - a[7], 255 - a[8]>>, i64(1))

wrapping_sub(a, b) == wrapping_add(a, wrapping_neg(b))

\* the bytes of a counted from the least significant one, which is digit 0
digit(a, i) == a[8 - i]

\* column p of the schoolbook product of two 8-byte strings
RECURSIVE column(_, _, _, _)
column(a, b, p, i) ==
    IF i > 7 THEN 0
    ELSE (IF p - i \in 0..7 THEN digit(a, i) * digit(b, p - i) ELSE 0) + column(a, b, p, i + 1)

RECURSIVE column_carry(_, _, _)
column_carry(a, b, p) ==
    IF p = 0 THEN 0 ELSE (column(a, b, p - 1, 0) + column_carry(a, b, p - 1)) \div 256

\* the 16 bytes of the product of two unsigned 8-byte strings
widening_mul(a, b) ==
    LET d(p) == (column(a, b, p, 0) + column_carry(a, b, p)) % 256
    IN <<d(15), d(14), d(13), d(12), d(11), d(10), d(9), d(8),
         d(7), d(6), d(5), d(4), d(3), d(2), d(1), d(0)>>

\* i64::wrapping_mul: the low 8 bytes of the product
wrapping_mul(a, b) == SubSeq(widening_mul(a, b), 9, 16)

\* |a| as an unsigned 8-byte string (2^63 for i64::MIN)
unsigned_abs(a) == IF is_negative(a) THEN wrapping_neg(a) ELSE a

\* unsigned comparison of two byte strings of equal length
u_gt(a, b) == \E k \in 1..8 : a[k] > b[k] /\ \A j \in 1..(k - 1) : a[j] = b[j]

\* a > b on i64
i64_gt(a, b) ==
    IF is_negative(a) # is_negative(b) THEN is_negative(b) ELSE u_gt(a, b)

\* the overflow checks of the arithmetic operators: the mathematical result
\* is outside i64
add_overflows(a, b) ==
    is_negative(a) = is_negative(b) /\ is_negative(wrapping_add(a, b)) # is_negative(a)

sub_overflows(a, b) ==
    is_negative(a) # is_negative(b) /\ is_negative(wrapping_sub(a, b)) # is_negative(a)

neg_overflows(a) == a = I64_MIN

mul_overflows(a, b) ==
    LET w == widening_mul(unsigned_abs(a), unsigned_abs(b))
        low == SubSeq(w, 9, 16)
    IN \/ SubSeq(w, 1, 8) # i64(0)
       \/ IF is_negative(a) # is_negative(b) THEN u_gt(low, I64_MIN) ELSE is_negative(low)

div_overflows(a, b) == a = I64_MIN /\ b = i64(-1)

\* bit i of a, bit 0 the least significant
bit(a, i) == (digit(a, i \div 8) \div (2 ^ (i % 8))) % 2

\* a shifted left by one bit, with low as the new bit 0
shl1(a, low) ==
    LET s(k) == (a[k] * 2 + (IF k = 8 THEN low ELSE a[k + 1] \div 128)) % 256
    IN <<s(1), s(2), s(3), s(4), s(5), s(6), s(7), s(8)>>

\* the quotient of two unsigned 8-byte strings, b # 0: long division, one
\* bit of a at a time from bit i down, q and r the quotient and remainder so far
div_step(a, b, i, q, r) ==
    CHOOSE s \in {IF u_gt(b, r1) THEN [q |-> shl1(q, 0), r |-> r1]
                  ELSE [q |-> shl1(q, 1), r |-> wrapping_sub(r1, b)] :
                  r1 \in {shl1(r, bit(a, i))}} : TRUE

\* n steps of the long division, from bit i down
RECURSIVE div_steps(_, _, _, _, _)
div_steps(a, b, i, n, s) ==
    IF n = 0 THEN s
    ELSE CHOOSE d \in {div_steps(a, b, i - 1, n - 1, t) : t \in {div_step(a, b, i, s.q, s.r)}} : TRUE

\* the long division taken one byte of a at a time
RECURSIVE u_div(_, _, _, _, _)
u_div(a, b, i, q, r) ==
    IF i < 0 THEN q
    ELSE CHOOSE d \in {u_div(a, b, i - 8, s.q, s.r) :
                        s \in {div_steps(a, b, i, 8, [q |-> q, r |-> r])}} : TRUE

\* i64 division truncates toward zero
trunc_div(a, b) ==
    LET q == u_div(unsigned_abs(a), unsigned_abs(b), 63, i64(0), i64(0))
    IN IF is_negative(a) # is_negative(b) THEN wrapping_neg(q) ELSE q

(***************************************************************************)
(* Objects, src/object/objects.rs.  Every variant has its own field names, *)
(* so two objects of different variants are simply unequal.                *)
(***************************************************************************)
Integer(v) == [t |-> "Integer", value |-> v]

Boolean(v) == [t |-> "Boolean", bvalue |-> v]

StringObj(v) == [t |-> "String", svalue |-> v]

ArrayObj(v) == [t |-> "Array", elements |-> v]

CompiledFunctionObj(ins, n) ==
    [t |-> "CompiledFunction", instructions |-> ins, num_args |-> n]

BuiltinFunctionObj(name, n) ==
    [t |-> "BuiltinFunction", fn_name |-> name, num_params |-> n]

Closure(f) == [t |-> "Closure", func |-> f, free |-> <<>>]

TRUE_OBJ == Boolean(TRUE)

FALSE_OBJ == Boolean(FALSE)

NULL == [t |-> "Null"]

is_integer(o) == o.t = "Integer"

is_boolean(o) == o.t = "Boolean"

is_string(o) == o.t = "String"

\* usize::MAX, the arity of a variadic builtin; only compared, never computed with
USIZE_MAX == -1

\* a variant of get_builtin_function that counts the builtins from 0
get_builtin_function_from_zero(index) ==
    CASE index = 0 -> <<BuiltinFunctionObj("len", 1)>>
      [] index = 1 -> <<BuiltinFunctionObj("print", USIZE_MAX)>>
      [] index = 2 -> <<BuiltinFunctionObj("push", 2)>>
      [] index = 3 -> <<BuiltinFunctionObj("pop", 1)>>
      [] index = 4 -> <<BuiltinFunctionObj("is_null", 1)>>
      [] index = 5 -> <<BuiltinFunctionObj("insert", 3)>>
      [] index = 6 -> <<BuiltinFunctionObj("delete", 2)>>
      [] index = 7 -> <<BuiltinFunctionObj("sleep", 1)>>
      [] OTHER -> <<>>

get_builtin_function(index) ==
    CASE index = 1 -> <<BuiltinFunctionObj("len", 1)>>
      [] index = 2 -> <<BuiltinFunctionObj("print", USIZE_MAX)>>
      [] index = 3 -> <<BuiltinFunctionObj("push", 2)>>
      [] index = 4 -> <<BuiltinFunctionObj("pop", 1)>>
      [] index = 5 -> <<BuiltinFunctionObj("is_null", 1)>>
      [] index = 6 -> <<BuiltinFunctionObj("insert", 3)>>
      [] index = 7 -> <<BuiltinFunctionObj("delete", 2)>>
      [] index = 8 -> <<BuiltinFunctionObj("sleep", 1)>>
      [] OTHER -> <<>>

(***************************************************************************)
(* Operand decoding, src/code/helpers.rs                                   *)
(***************************************************************************)
\* &ins[pos..] followed by a read of w bytes panics unless the bytes exist
can_read(ins, pos, w) == pos + w <= Len(ins)

read_u16(ins, pos) == ins[pos + 1] * 256 + ins[pos + 2]

read_u8(ins, pos) == ins[pos + 1]

(***************************************************************************)
(* The virtual machine, src/vm.  A machine state is a record m; a handler  *)
(* maps a machine state to the next one.  status is "ok" while run() goes  *)
(* on, "err" once a handler returned Err (msg holds the error), "panic"    *)
(* once the process aborted.  run_depth counts the active invocations of   *)
(* run(): run_call_expression calls run() again for the callee's frame.    *)
(***************************************************************************)
\* overflow_checks is the build's setting of that name: with it (the dev and
\* test profiles) an i64 operator whose result overflows panics, without it
\* (the release profile) the result wraps.
VARIABLES input, overflow_checks, constants, stack, globals, result, frames,
          frames_index, run_depth, status, msg, popped, bases, compiler, api

vars == <<input, overflow_checks, constants, stack, globals, result, frames,
          frames_index, run_depth, status, msg, popped, bases, compiler, api>>

NoMsg == [text |-> "", args |-> <<>>]

Err(m, text, args) ==
    [m EXCEPT !.status = "err", !.msg = [text |-> text, args |-> args]]

Panic(m, text) ==
    [m EXCEPT !.status = "panic", !.msg = [text |-> text, args |-> <<>>]]

Frame_new(f, arguments) == [closure |-> Closure(f), ip |-> 0, locals |-> arguments]

instructions(frame) == frame.closure.func.instructions

\* frames[frames_index - 1]
has_current_frame(m) == m.frames_index >= 1 /\ m.frames_index <= Len(m.frames)

current_frame(m) == m.frames[m.frames_index]

set_ip(m, v) == [m EXCEPT !.frames[m.frames_index].ip = v]

\* a push that does not look at the capacity: the variant the stack bound
\* must tell apart from push
push_unchecked(m, val) == [m EXCEPT !.stack = Append(@, val)]

push(m, val) ==
    IF Len(m.stack) >= STACK_SIZE
    THEN Err(m, "stack overflow", <<>>)
    ELSE [m EXCEPT !.stack = Append(@, val)]

\* the object pop() returns, when the stack is not empty
top(m) == m.stack[Len(m.stack)]

pop(m) ==
    IF m.stack = <<>>
    THEN Err(m, "stack is empty", <<>>)
    ELSE LET rest == SubSeq(m.stack, 1, Len(m.stack) - 1)
             f == current_frame(m)
         IN IF rest = <<>> /\ f.ip + 1 >= Len(instructions(f))
            THEN [m EXCEPT !.stack = rest, !.result = <<top(m)>>]
            ELSE [m EXCEPT !.stack = rest]

push_frame(m, f) ==
    [m EXCEPT !.frames = Append(@, f), !.frames_index = @ + 1]

pop_frame(m) ==
    IF m.frames_index = 0 \/ m.frames = <<>>
    THEN Panic(m, "pop_frame on an empty frame stack")
    ELSE [m EXCEPT !.frames_index = @ - 1,
                   !.frames = SubSeq(@, 1, Len(@) - 1)]

\* the post-dispatch `self.current_frame().ip += 1` of run()
advance_ip(m) ==
    IF ~has_current_frame(m)
    THEN Panic(m, "current_frame on an empty frame stack")
    ELSE set_ip(m, current_frame(m).ip + 1)

run_arithmetic_operations(m, op) ==
    LET m1 == pop(m)
        right == top(m)
        m2 == pop(m1)
        left == top(m1)
    IN IF m1.status # "ok" THEN m1
       ELSE IF m2.status # "ok" THEN m2
       ELSE IF is_string(left) /\ is_string(right)
       THEN IF op # OP_ADD
            THEN Err(m2, "incorrect operation on strings", <<>>)
            ELSE push(m2, StringObj(left.svalue \o right.svalue))
       ELSE IF is_integer(left) /\ is_integer(right)
       THEN IF op = OP_DIV /\ right.value = i64(0)
            THEN Panic(m2, "attempt to divide by zero")
            ELSE IF op = OP_DIV /\ div_overflows(left.value, right.value)
            THEN Panic(m2, "attempt to divide with overflow")
            ELSE IF overflow_checks /\ op = OP_ADD /\ add_overflows(left.value, right.value)
            THEN Panic(m2, "attempt to add with overflow")
            ELSE IF overflow_checks /\ op = OP_SUB /\ sub_overflows(left.value, right.value)
            THEN Panic(m2, "attempt to subtract with overflow")
            ELSE IF overflow_checks /\ op = OP_MUL /\ mul_overflows(left.value, right.value)
            THEN Panic(m2, "attempt to multiply with overflow")
            ELSE push(m2, Integer(
                     CASE op = OP_ADD -> wrapping_add(left.value, right.value)
                       [] op = OP_SUB -> wrapping_sub(left.value, right.value)
                       [] op = OP_MUL -> wrapping_mul(left.value, right.value)
                       [] op = OP_DIV -> trunc_div(left.value, right.value)))
       ELSE Err(m2, "arithmetic operations are only supported between strings or integers", <<>>)

get_bool_constant(val) == IF val THEN TRUE_OBJ ELSE FALSE_OBJ

run_comparison_for_ints(m, op, l, r) ==
    push(m, get_bool_constant(
        CASE op = OP_EQUAL -> l.value = r.value
          [] op = OP_NOT_EQUAL -> l.value # r.value
          [] op = OP_GREATER_THAN -> i64_gt(l.value, r.value)))

run_comparison_for_bools(m, op, l, r) ==
    push(m, get_bool_constant(
        CASE op = OP_EQUAL -> l.bvalue = r.bvalue
          [] op = OP_NOT_EQUAL -> l.bvalue # r.bvalue
          [] op = OP_GREATER_THAN -> l.bvalue /\ ~r.bvalue))

run_boolean_operations(m, op) ==
    LET m1 == pop(m)
        right == top(m)
        m2 == pop(m1)
        left == top(m1)
    IN IF m1.status # "ok" THEN m1
       ELSE IF m2.status # "ok" THEN m2
       ELSE IF is_integer(left) /\ is_integer(right)
       THEN run_comparison_for_ints(m2, op, left, right)
       ELSE IF is_boolean(left) /\ is_boolean(right)
       THEN run_comparison_for_bools(m2, op, left, right)
       ELSE Err(m2, "left and right operand types doesn't match", <<>>)

run_constant_instruction(m) ==
    LET f == current_frame(m)
        ins == instructions(f)
    IN IF ~can_read(ins, f.ip + 1, 2) THEN Panic(m, "operand out of range")
       ELSE LET const_index == read_u16(ins, f.ip + 1)
            IN IF const_index >= Len(m.constants)
               THEN Err(m, "constant at the index not found", <<const_index>>)
               ELSE LET m1 == push(m, m.constants[const_index + 1])
                    IN IF m1.status # "ok" THEN m1
                       ELSE set_ip(m1, f.ip + 2)

run_set_global_instruction(m) ==
    LET f == current_frame(m)
        ins == instructions(f)
    IN IF ~can_read(ins, f.ip + 1, 2) THEN Panic(m, "operand out of range")
       ELSE LET global_index == read_u16(ins, f.ip + 1)
                m1 == set_ip(m, f.ip + 2)
                m2 == pop(m1)
                last_pushed == top(m1)
            IN IF m2.status # "ok" THEN m2
               ELSE IF global_index >= Len(m2.globals)
               THEN [m2 EXCEPT !.globals = Append(@, last_pushed)]
               ELSE [m2 EXCEPT !.globals[global_index + 1] = last_pushed]

\* the loop of run_array_literal_instruction: arr_len pops, then the reverse
RECURSIVE pop_elements(_, _, _)
pop_elements(m, n, elements) ==
    IF n = 0 THEN [m |-> m, elements |-> elements]
    ELSE LET m1 == pop(m)
         IN IF m1.status # "ok" THEN [m |-> m1, elements |-> elements]
            ELSE pop_elements(m1, n - 1, <<top(m)>> \o elements)

run_array_literal_instruction(m) ==
    LET f == current_frame(m)
        ins == instructions(f)
    IN IF ~can_read(ins, f.ip + 1, 2) THEN Panic(m, "operand out of range")
       ELSE LET arr_len == read_u16(ins, f.ip + 1)
                r == pop_elements(set_ip(m, f.ip + 2), arr_len, <<>>)
            IN IF r.m.status # "ok" THEN r.m
               ELSE push(r.m, ArrayObj(r.elements))

run_assign_global_instruction(m) ==
    LET f == current_frame(m)
        ins == instructions(f)
    IN IF ~can_read(ins, f.ip + 1, 2) THEN Panic(m, "operand out of range")
       ELSE LET var_index == read_u16(ins, f.ip + 1)
                m1 == set_ip(m, f.ip + 2)
                m2 == pop(m1)
                last_pushed == top(m1)
            IN IF m2.status # "ok" THEN m2
               ELSE IF var_index >= Len(m2.globals)
               THEN Err(m2, "variable at index not found", <<var_index>>)
               ELSE push([m2 EXCEPT !.globals[var_index + 1] = last_pushed], NULL)

run_set_local_instruction(m) ==
    LET f == current_frame(m)
        ins == instructions(f)
    IN IF ~can_read(ins, f.ip + 1, 1) THEN Panic(m, "operand out of range")
       ELSE LET local_index == read_u8(ins, f.ip + 1)
                m1 == set_ip(m, f.ip + 1)
                m2 == pop(m1)
                last_pushed == top(m1)
            IN IF m2.status # "ok" THEN m2
               ELSE IF local_index >= Len(f.locals)
               THEN [m2 EXCEPT !.frames[m.frames_index].locals = Append(@, last_pushed)]
               ELSE [m2 EXCEPT !.frames[m.frames_index].locals[local_index + 1] = last_pushed]

run_get_builtin(m) ==
    LET f == current_frame(m)
        ins == instructions(f)
    IN IF ~can_read(ins, f.ip + 1, 1) THEN Panic(m, "operand out of range")
       ELSE LET builtin_index == read_u8(ins, f.ip + 1)
                m1 == set_ip(m, f.ip + 1)
                func == get_builtin_function(builtin_index)
            IN IF func = <<>>
               THEN Err(m1, "builtin function with index not found", <<builtin_index>>)
               ELSE push(m1, func[1])

run_get_global_instruction(m) ==
    LET f == current_frame(m)
        ins == instructions(f)
    IN IF ~can_read(ins, f.ip + 1, 2) THEN Panic(m, "operand out of range")
       ELSE LET global_index == read_u16(ins, f.ip + 1)
                m1 == set_ip(m, f.ip + 2)
            IN IF global_index >= Len(m1.globals)
               THEN Err(m1, "variable at index not found", <<global_index>>)
               ELSE push(m1, m1.globals[global_index + 1])

run_get_local_instruction(m) ==
    LET f == current_frame(m)
        ins == instructions(f)
    IN IF ~can_read(ins, f.ip + 1, 1) THEN Panic(m, "operand out of range")
       ELSE LET local_index == read_u8(ins, f.ip + 1)
                m1 == set_ip(m, f.ip + 1)
            IN IF local_index >= Len(f.locals)
               THEN Err(m1, "variable at index not found", <<local_index>>)
               ELSE push(m1, f.locals[local_index + 1])

\* a variant of cast_obj_to_bool with the truthiness of C: zero is false
cast_obj_to_bool_zero_is_false(obj) ==
    IF obj = FALSE_OBJ \/ obj = NULL \/ obj = Integer(i64(0)) THEN FALSE_OBJ ELSE TRUE_OBJ

cast_obj_to_bool(obj) ==
    IF obj = FALSE_OBJ \/ obj = NULL THEN FALSE_OBJ ELSE TRUE_OBJ

run_jump_not_truthy_instruction(m) ==
    LET m1 == pop(m)
        condition == cast_obj_to_bool(top(m))
        f == current_frame(m)
        ins == instructions(f)
    IN IF m1.status # "ok" THEN m1
       ELSE IF ~condition.bvalue
       THEN IF ~can_read(ins, f.ip + 1, 2) THEN Panic(m1, "operand out of range")
            ELSE LET jump_position == read_u16(ins, f.ip + 1)
                 IN IF jump_position = 0 /\ overflow_checks
                    THEN Panic(m1, "attempt to subtract with overflow")
                    ELSE set_ip(m1, jump_position - 1)
       ELSE set_ip(m1, f.ip + 2)

\* a variant of run_jump_instruction that forgets the increment of the loop
run_jump_instruction_to_target(m) ==
    set_ip(m, read_u16(instructions(current_frame(m)), current_frame(m).ip + 1))

\* without overflow checks `jump_position - 1` wraps to usize::MAX for the
\* target 0 and the increment of the loop wraps it back to 0
run_jump_instruction(m) ==
    LET f == current_frame(m)
        ins == instructions(f)
    IN IF ~can_read(ins, f.ip + 1, 2) THEN Panic(m, "operand out of range")
       ELSE LET jump_position == read_u16(ins, f.ip + 1)
            IN IF jump_position = 0 /\ overflow_checks
               THEN Panic(m, "attempt to subtract with overflow")
               ELSE set_ip(m, jump_position - 1)

run_closure_instruction(m) ==
    LET f == current_frame(m)
        ins == instructions(f)
    IN IF ~can_read(ins, f.ip + 1, 2) \/ ~can_read(ins, f.ip + 3, 1)
       THEN Panic(m, "operand out of range")
       ELSE LET const_index == read_u16(ins, f.ip + 1)
                m1 == set_ip(m, f.ip + 3)
            IN IF const_index >= Len(m1.constants)
               THEN Err(m1, "constant at index not found", <<const_index>>)
               ELSE LET obj == m1.constants[const_index + 1]
                    IN IF obj.t # "CompiledFunction"
                       THEN Err(m1, "not a function", <<>>)
                       ELSE push(m1, Closure(obj))

run_prefix_minus(m) ==
    LET m1 == pop(m)
        right == top(m)
    IN IF m1.status # "ok" THEN m1
       ELSE IF ~is_integer(right) THEN Err(m1, "expected an INTEGER", <<>>)
       ELSE IF overflow_checks /\ neg_overflows(right.value)
       THEN Panic(m1, "attempt to negate with overflow")
       ELSE push(m1, Integer(wrapping_neg(right.value)))

run_prefix_bang(m) ==
    LET m1 == pop(m)
        v == top(m)
    IN IF m1.status # "ok" THEN m1
       ELSE push(m1, CASE v = TRUE_OBJ -> FALSE_OBJ
                       [] v = FALSE_OBJ -> TRUE_OBJ
                       [] v = NULL -> TRUE_OBJ
                       [] OTHER -> FALSE_OBJ)

(***************************************************************************)
(* Builtins, src/object/builtins.rs: the native function of a builtin,     *)
(* applied to the argument list.  The result is <<"ok", object>> or        *)
(* <<"err", text>>; a function that has written to the vector of an array  *)
(* returns <<"ok", object, array before, array after>>.                    *)
(***************************************************************************)
err_argument_not_supported(fn_name) == <<"err", "argument not supported", fn_name>>

builtin_len(args) ==
    CASE is_string(args[1]) -> <<"ok", Integer(i64(Len(args[1].svalue)))>>
      [] args[1].t = "Array" -> <<"ok", Integer(i64(Len(args[1].elements)))>>
      [] OTHER -> err_argument_not_supported("len")

\* array.elements.borrow_mut().push(args.remove(0))
builtin_push(args) ==
    IF args[1].t # "Array" THEN err_argument_not_supported("push")
    ELSE <<"ok", NULL, args[1], ArrayObj(Append(args[1].elements, args[2]))>>

\* array.elements.borrow_mut().pop(), Null for an empty array
builtin_pop(args) ==
    IF args[1].t # "Array" THEN err_argument_not_supported("pop")
    ELSE IF args[1].elements = <<>> THEN <<"ok", NULL>>
    ELSE LET elements == args[1].elements
         IN <<"ok", elements[Len(elements)], args[1],
              ArrayObj(SubSeq(elements, 1, Len(elements) - 1))>>

builtin_print(args) == <<"ok", NULL>>

builtin_is_null(args) == <<"ok", Boolean(args[1] = NULL)>>

builtin_sleep(args) ==
    IF ~is_integer(args[1]) THEN err_argument_not_supported("sleep")
    ELSE IF is_negative(args[1].value)
    THEN <<"err", "sleep only takes a positive integer value", "sleep">>
    ELSE <<"ok", NULL>>

builtin_func(fn_name, args) ==
    CASE fn_name = "len" -> builtin_len(args)
      [] fn_name = "print" -> builtin_print(args)
      [] fn_name = "push" -> builtin_push(args)
      [] fn_name = "pop" -> builtin_pop(args)
      [] fn_name = "is_null" -> builtin_is_null(args)
      [] fn_name = "sleep" -> builtin_sleep(args)
      [] OTHER -> err_argument_not_supported(fn_name)

(***************************************************************************)
(* CALL, src/vm/run.rs                                                     *)
(***************************************************************************)
\* (0..num_args).filter_map(|_| self.pop().ok()), then reverse(): the
\* arguments in push order; a pop that fails is skipped
RECURSIVE pop_args(_, _)
pop_args(m, n) ==
    IF n = 0 THEN [m |-> m, args |-> <<>>]
    ELSE LET m1 == pop(m)
         IN IF m1.status # "ok" THEN [m |-> m, args |-> <<>>]
            ELSE LET r == pop_args(m1, n - 1)
                 IN [m |-> r.m, args |-> Append(r.args, top(m))]

\* the arity error with want and got exchanged: the variant the arity check
\* must tell apart from wrong_number_of_arguments
wrong_number_of_arguments_swapped(m, want, got) ==
    Err(m, "wrong number of arguments", <<got, want>>)

\* anyhow!("wrong number of arguments: want={}, got={}", want, got)
wrong_number_of_arguments(m, want, got) ==
    Err(m, "wrong number of arguments", <<want, got>>)

\* the vector of an array is shared by all its clones (Rc): a write through
\* one of them is seen through the clones held by the globals, the stack,
\* the locals and the result.  The clones are found by their contents; the
\* programs of the model hold no two arrays of equal contents that are not
\* clones of each other.
written(objects, before, after) ==
    [k \in 1..Len(objects) |-> IF objects[k] = before THEN after ELSE objects[k]]

share(m, before, after) ==
    [m EXCEPT !.globals = written(@, before, after),
              !.stack = written(@, before, after),
              !.result = written(@, before, after),
              !.frames = [k \in 1..Len(@) |->
                            [@[k] EXCEPT !.locals = written(@, before, after)]]]

\* the value of a call of a native function, pushed after its writes
invoked(m, res) ==
    IF res[1] = "err" THEN Err(m, res[2], <<>>)
    ELSE push(IF Len(res) = 4 THEN share(m, res[3], res[4]) ELSE m, res[2])

\* a variant of run_call_expression that lets a builtin be called with more
\* arguments than it declares
run_call_expression_at_least(m) ==
    LET f == current_frame(m)
        ins == instructions(f)
    IN IF ~can_read(ins, f.ip + 1, 1) THEN Panic(m, "operand out of range")
       ELSE LET num_args == read_u8(ins, f.ip + 1)
                m1 == set_ip(m, f.ip + 1)
                r == pop_args(m1, num_args)
                local_args == r.args
                m2 == pop(r.m)
                callee == top(r.m)
            IN IF m2.status # "ok" THEN m2
               ELSE IF callee.t = "Closure"
               THEN IF Len(local_args) # callee.func.num_args
                    THEN wrong_number_of_arguments(m2, callee.func.num_args, Len(local_args))
                    ELSE [push_frame(m2, Frame_new(callee.func, local_args))
                             EXCEPT !.run_depth = @ + 1]
               ELSE IF callee.t = "BuiltinFunction"
               THEN IF Len(local_args) < callee.num_params
                    THEN wrong_number_of_arguments(m2, callee.num_params, Len(local_args))
                    ELSE invoked(m2, builtin_func(callee.fn_name, local_args))
               ELSE Err(m2, "expected a function", <<>>)

run_call_expression(m) ==
    LET f == current_frame(m)
        ins == instructions(f)
    IN IF ~can_read(ins, f.ip + 1, 1) THEN Panic(m, "operand out of range")
       ELSE LET num_args == read_u8(ins, f.ip + 1)
                m1 == set_ip(m, f.ip + 1)
                r == pop_args(m1, num_args)
                local_args == r.args
                m2 == pop(r.m)
                callee == top(r.m)
            IN IF m2.status # "ok" THEN m2
               ELSE IF callee.t = "Closure"
               THEN IF Len(local_args) # callee.func.num_args
                    THEN wrong_number_of_arguments(m2, callee.func.num_args, Len(local_args))
                    ELSE \* push_frame, then self.run() on the new frame
                         [push_frame(m2, Frame_new(callee.func, local_args))
                             EXCEPT !.run_depth = @ + 1]
               ELSE IF callee.t = "BuiltinFunction"
               THEN IF Len(local_args) # callee.num_params /\ callee.num_params # USIZE_MAX
                    THEN wrong_number_of_arguments(m2, callee.num_params, Len(local_args))
                    ELSE invoked(m2, builtin_func(callee.fn_name, local_args))
               ELSE Err(m2, "expected a function", <<>>)

run_return_value(m) == pop_frame(m)

run_return(m) ==
    LET m1 == pop_frame(m)
    IN IF m1.status # "ok" THEN m1 ELSE push(m1, NULL)

run_pop(m) == pop(m)

(***************************************************************************)
(* Bytecode handed to VM::new.  The operand layout is the one the          *)
(* handlers of src/vm/run.rs decode: read_u16 operands take two bytes      *)
(* (big-endian), read_u8 operands one.                                     *)
(***************************************************************************)
vm_operand_widths(op) ==
    CASE op \in {OP_CONSTANT, OP_JUMP_NOT_TRUTHY, OP_JUMP, OP_GET_GLOBAL,
                 OP_SET_GLOBAL, OP_ASSIGN_GLOBAL, OP_ARRAY, OP_HASH} -> <<2>>
      [] op \in {OP_CALL, OP_GET_LOCAL, OP_SET_LOCAL, OP_GET_BUILTIN, OP_GET_FREE} -> <<1>>
      [] op = OP_CLOSURE -> <<2, 1>>
      [] OTHER -> <<>>

operand_bytes(v, w) == IF w = 2 THEN <<v \div 256, v % 256>> ELSE <<v>>

RECURSIVE encode_operands(_, _, _)
encode_operands(widths, operands, i) ==
    IF i > Len(widths) THEN <<>>
    ELSE operand_bytes(operands[i], widths[i]) \o encode_operands(widths, operands, i + 1)

\* ins is <<opcode, operand, ...>>
encode(ins) == <<ins[1]>> \o encode_operands(vm_operand_widths(ins[1]), Tail(ins), 1)

RECURSIVE assemble(_)
assemble(listing) ==
    IF listing = <<>> THEN <<>>
    ELSE encode(Head(listing)) \o assemble(Tail(listing))

ByteCode(listing, consts) == [instructions |-> assemble(listing), constants |-> consts]

(***************************************************************************)
(* Instruction encoding, src/code/mod.rs                                   *)
(***************************************************************************)
Definition(name, widths) == [name |-> name, operand_widths |-> widths]

\* Ok(definition) is <<definition>>, Err is <<>>
lookup(op) ==
    CASE op = OP_CONSTANT -> <<Definition("OpConstant", <<2>>)>>
      [] op = OP_ADD -> <<Definition("OpAdd", <<>>)>>
      [] op = OP_POP -> <<Definition("OpPop", <<>>)>>
      [] op = OP_SUB -> <<Definition("OpSub", <<>>)>>
      [] op = OP_MUL -> <<Definition("OpMul", <<>>)>>
      [] op = OP_DIV -> <<Definition("OpDiv", <<>>)>>
      [] op = OP_TRUE -> <<Definition("OpTrue", <<>>)>>
      [] op = OP_FALSE -> <<Definition("OpFalse", <<>>)>>
      [] op = OP_EQUAL -> <<Definition("OpEqual", <<>>)>>
      [] op = OP_NOT_EQUAL -> <<Definition("OpNotEqual", <<>>)>>
      [] op = OP_GREATER_THAN -> <<Definition("OpGreaterThan", <<>>)>>
      [] op = OP_MINUS -> <<Definition("OpMinus", <<>>)>>
      [] op = OP_BANG -> <<Definition("OpBang", <<>>)>>
      [] op = OP_JUMP_NOT_TRUTHY -> <<Definition("OpJumpNotTruthy", <<2>>)>>
      [] op = OP_JUMP -> <<Definition("OpJump", <<2>>)>>
      [] op = OP_NULL -> <<Definition("OpNull", <<>>)>>
      [] op = OP_GET_GLOBAL -> <<Definition("OpGetGlobal", <<2>>)>>
      [] op = OP_SET_GLOBAL -> <<Definition("OpSetGlobal", <<2>>)>>
      [] op = OP_ARRAY -> <<Definition("OpArray", <<2>>)>>
      [] op = OP_HASH -> <<Definition("OpHash", <<2>>)>>
      [] op = OP_INDEX -> <<Definition("OpIndex", <<>>)>>
      [] op = OP_CALL -> <<Definition("OpCall", <<>>)>>
      [] op = OP_RETURN_VALUE -> <<Definition("OpReturnValue", <<>>)>>
      [] op = OP_RETURN -> <<Definition("OpReturn", <<>>)>>
      [] op = OP_GET_LOCAL -> <<Definition("OpGetLocal", <<1>>)>>
      [] op = OP_SET_LOCAL -> <<Definition("OpSetLocal", <<1>>)>>
      [] op = OP_ASSIGN_GLOBAL -> <<Definition("OpAssignGlobal", <<2>>)>>
      [] OTHER -> <<>>

\* u8::try_from / u16::try_from of an operand succeeds
fits_width(o, w) ==
    CASE w = 1 -> o <= 255
      [] w = 2 -> o <= 65535
      [] OTHER -> TRUE

\* the bytes after the opcode: every width takes its bytes, zero where no
\* operand was given
RECURSIVE make_operands(_, _, _)
make_operands(widths, operands, i) ==
    IF i > Len(widths) THEN <<>>
    ELSE (IF i <= Len(operands)
          THEN operand_bytes(operands[i], widths[i])
          ELSE [k \in 1..widths[i] |-> 0])
         \o make_operands(widths, operands, i + 1)

\* make(op, operands): the bytes of one instruction; it panics when there
\* are more operands than widths (operand_widths[i]) or an operand does not
\* fit its width (unwrap)
make(op, operands) ==
    IF lookup(op) = <<>> THEN [panic |-> "", bytes |-> <<>>]
    ELSE LET widths == lookup(op)[1].operand_widths
         IN IF \E i \in 1..Len(operands) : i <= Len(widths) /\ ~fits_width(operands[i], widths[i])
            THEN [panic |-> "called Result::unwrap() on an Err value", bytes |-> <<>>]
            ELSE IF Len(operands) > Len(widths)
            THEN [panic |-> "index out of bounds", bytes |-> <<>>]
            ELSE [panic |-> "", bytes |-> <<op>> \o make_operands(widths, operands, 1)]

\* a variant of read_operands_from that reads one byte for every operand
RECURSIVE read_operands_bytewise(_, _, _, _)
read_operands_bytewise(widths, ins, i, offset) ==
    IF i > Len(widths) THEN [panic |-> "", operands |-> <<>>, read |-> offset]
    ELSE IF ~can_read(ins, offset, 1)
    THEN [panic |-> "operand out of range", operands |-> <<>>, read |-> offset]
    ELSE LET rest == read_operands_bytewise(widths, ins, i + 1, offset + widths[i])
         IN [rest EXCEPT !.operands = <<read_u8(ins, offset)>> \o @]

\* the loop of read_operands from operand i on: each width reads its bytes
\* at the offset (a read past the end of ins panics) and moves the offset
RECURSIVE read_operands_from(_, _, _, _)
read_operands_from(widths, ins, i, offset) ==
    IF i > Len(widths) THEN [panic |-> "", operands |-> <<>>, read |-> offset]
    ELSE IF ~can_read(ins, offset, widths[i])
    THEN [panic |-> "operand out of range", operands |-> <<>>, read |-> offset]
    ELSE LET rest == read_operands_from(widths, ins, i + 1, offset + widths[i])
             o == CASE widths[i] = 1 -> read_u8(ins, offset)
                    [] widths[i] = 2 -> read_u16(ins, offset)
                    [] OTHER -> 0
         IN [rest EXCEPT !.operands = <<o>> \o @]

\* read_operands(def, ins): the operands and the number of bytes read
read_operands(def, ins) == read_operands_from(def.operand_widths, ins, 1, 0)

\* {} of a usize: its decimal digits
decimal_digit(d) ==
    CASE d = 0 -> "0" [] d = 1 -> "1" [] d = 2 -> "2" [] d = 3 -> "3"
      [] d = 4 -> "4" [] d = 5 -> "5" [] d = 6 -> "6" [] d = 7 -> "7"
      [] d = 8 -> "8" [] d = 9 -> "9"

RECURSIVE decimal(_)
decimal(n) ==
    IF n < 10 THEN decimal_digit(n) ELSE decimal(n \div 10) \o decimal_digit(n % 10)

\* {:04} of a usize: at least four digits, zeros in front
zero_padded(n) ==
    CASE n < 10 -> "000" \o decimal(n)
      [] n >= 10 /\ n < 100 -> "00" \o decimal(n)
      [] n >= 100 /\ n < 1000 -> "0" \o decimal(n)
      [] OTHER -> decimal(n)

\* format_instruction of src/code/helpers.rs: the text, and whether it is
\* an ERROR text
format_instruction(def, operands) ==
    LET operand_count == Len(def.operand_widths)
    IN IF Len(operands) # operand_count
       THEN [error |-> TRUE,
             text |-> "ERROR: operand len " \o decimal(Len(operands))
                        \o " does not match defined " \o decimal(operand_count) \o "\n"]
       ELSE CASE operand_count = 1 ->
                    [error |-> FALSE, text |-> def.name \o " " \o decimal(operands[1])]
              [] OTHER ->
                    [error |-> TRUE,
                     text |-> "ERROR: unhandled operandCount for " \o def.name \o "\n"]

\* format_instruction of test_helpers in src/code/mod.rs, the one
\* instructions_to_string calls
test_helpers_format_instruction(def, operands) ==
    LET operand_count == Len(def.operand_widths)
    IN IF Len(operands) # operand_count
       THEN [error |-> TRUE,
             text |-> "ERROR: operand len " \o decimal(Len(operands))
                        \o " does not match defined " \o decimal(operand_count) \o "\n"]
       ELSE CASE operand_count = 0 -> [error |-> FALSE, text |-> def.name]
              [] operand_count = 1 ->
                    [error |-> FALSE, text |-> def.name \o " " \o decimal(operands[1])]
              [] OTHER ->
                    [error |-> TRUE,
                     text |-> "ERROR: unhandled operandCount for " \o def.name \o "\n"]

\* one round of the loop of instructions_to_string on d = [ins, i, out,
\* panic]; out holds the strings pushed so far, with the position they were
\* pushed at.  On an undefined opcode the loop pushes the error and
\* continues without moving i.
instructions_to_string_step(d) ==
    LET def == lookup(d.ins[d.i + 1])
    IN IF def = <<>>
       THEN [d EXCEPT !.out = Append(@, [at |-> d.i, error |-> TRUE,
                                         text |-> "ERROR: opcode must be defined\n"])]
       ELSE LET r == read_operands(def[1], SubSeq(d.ins, d.i + 2, Len(d.ins)))
                f == test_helpers_format_instruction(def[1], r.operands)
            IN IF r.panic # "" THEN [d EXCEPT !.panic = r.panic]
               ELSE [d EXCEPT !.out = Append(@, [at |-> d.i, error |-> f.error,
                                                 text |-> zero_padded(d.i) \o " "
                                                            \o f.text \o "\n"]),
                              !.i = @ + 1 + r.read]

(***************************************************************************)
(* Symbol table, src/compiler/symbol_table.rs.  The tables linked by       *)
(* `outer` form a sequence: the last one is the current table, the one     *)
(* before it is its outer table.  A store maps the names it holds to their *)
(* symbols.                                                                *)
(***************************************************************************)
GLOBAL_SCOPE == "GLOBAL"

LOCAL_SCOPE == "LOCAL"

BUILTIN_SCOPE == "BUILTIN"

FREE_SCOPE == "FREE"

FUNCTION_SCOPE == "FUNCTION"

Symbol(name, scope, index) == [name |-> name, scope |-> scope, index |-> index]

\* symbol.is_local(), used by src/compiler/compile.rs
is_local(symbol) == symbol.scope = LOCAL_SCOPE

BUILTIN_FUNCTIONS ==
    <<<<1, "len">>, <<2, "print">>, <<3, "push">>, <<4, "pop">>, <<5, "is_null">>,
      <<6, "insert">>, <<7, "delete">>, <<8, "sleep">>>>

\* HashMap::insert
insert(store, name, symbol) ==
    [n \in DOMAIN store \cup {name} |-> IF n = name THEN symbol ELSE store[n]]

SymbolTableDefinition_default == [store |-> <<>>, num_definitions |-> 0]

define_builtin(t, index, name) ==
    [t EXCEPT !.table.store = insert(@, name, Symbol(name, BUILTIN_SCOPE, index))]

RECURSIVE define_builtins(_, _)
define_builtins(t, i) ==
    IF i > Len(BUILTIN_FUNCTIONS) THEN t
    ELSE define_builtins(define_builtin(t, BUILTIN_FUNCTIONS[i][1], BUILTIN_FUNCTIONS[i][2]), i + 1)

\* defined is history kept for stating properties, which no operation reads:
\* for every call of define on the table, the symbol it returned and the
\* value of num_definitions it found
SymbolTable_new ==
    define_builtins([table |-> SymbolTableDefinition_default, free_symbols |-> <<>>,
                     defined |-> <<>>], 1)

new_enclosed(tables) == Append(tables, SymbolTable_new)

\* SymbolTable::define on the current table; the symbol is LOCAL when the
\* table has an outer table
\* a variant of define that numbers the symbols of a table after those of
\* its outer table
define_after_outer(tables, name) ==
    LET k == Len(tables)
        t == tables[k].table
        symbol == Symbol(name, IF k > 1 THEN LOCAL_SCOPE ELSE GLOBAL_SCOPE,
                         t.num_definitions
                         + (IF k > 1 THEN tables[k - 1].table.num_definitions ELSE 0))
    IN [tables |-> [tables EXCEPT ![k].table =
                        [store |-> insert(t.store, name, symbol),
                         num_definitions |-> t.num_definitions + 1],
                    ![k].defined = Append(@, [symbol |-> symbol,
                                              num_definitions |-> t.num_definitions])],
        symbol |-> symbol]

define(tables, name) ==
    LET k == Len(tables)
        t == tables[k].table
        symbol == Symbol(name, IF k > 1 THEN LOCAL_SCOPE ELSE GLOBAL_SCOPE, t.num_definitions)
    IN [tables |-> [tables EXCEPT ![k].table =
                        [store |-> insert(t.store, name, symbol),
                         num_definitions |-> t.num_definitions + 1],
                    ![k].defined = Append(@, [symbol |-> symbol,
                                              num_definitions |-> t.num_definitions])],
        symbol |-> symbol]

\* a variant of define_function_name that takes a definition index
define_function_name_counted(tables, name) ==
    LET symbol == Symbol(name, FUNCTION_SCOPE, 0)
    IN [tables |-> [tables EXCEPT ![Len(tables)].table.store = insert(@, name, symbol),
                                  ![Len(tables)].table.num_definitions = @ + 1],
        symbol |-> symbol]

define_function_name(tables, name) ==
    LET symbol == Symbol(name, FUNCTION_SCOPE, 0)
    IN [tables |-> [tables EXCEPT ![Len(tables)].table.store = insert(@, name, symbol)],
        symbol |-> symbol]

\* a variant of define_free that gives every free symbol the index 0
define_free_first_index(tables, k, original) ==
    LET free_symbols == Append(tables[k].free_symbols, original)
        symbol == Symbol(original.name, FREE_SCOPE, 0)
    IN [tables |-> [tables EXCEPT ![k].free_symbols = free_symbols,
                                  ![k].table.store = insert(@, original.name, symbol)],
        symbol |-> <<symbol>>]

\* define_free on table k
define_free(tables, k, original) ==
    LET free_symbols == Append(tables[k].free_symbols, original)
        symbol == Symbol(original.name, FREE_SCOPE, Len(free_symbols) - 1)
    IN [tables |-> [tables EXCEPT ![k].free_symbols = free_symbols,
                                  ![k].table.store = insert(@, original.name, symbol)],
        symbol |-> <<symbol>>]

\* resolve on table k: Some(symbol) is <<symbol>>, None is <<>>
RECURSIVE resolve(_, _, _)
resolve(tables, k, name) ==
    LET store == tables[k].table.store
    IN IF name \in DOMAIN store THEN [tables |-> tables, symbol |-> <<store[name]>>]
       ELSE IF k > 1
       THEN LET r == resolve(tables, k - 1, name)
            IN IF r.symbol = <<>> THEN r
               ELSE IF r.symbol[1].scope \in {GLOBAL_SCOPE, BUILTIN_SCOPE} THEN r
               ELSE define_free(r.tables, k, r.symbol[1])
       ELSE [tables |-> tables, symbol |-> <<>>]

(***************************************************************************)
(* Syntax trees, as src/compiler/compile.rs takes them apart.  An Option   *)
(* is a sequence of length 0 or 1.                                         *)
(***************************************************************************)
ProgramNode(statements) == [node |-> "Program", statements |-> statements]

Identifier(value) == [node |-> "Identifier", value |-> value]

LetStatement(name, value) == [node |-> "Let", name |-> Identifier(name), value |-> value]

BlockStatement(statements) == [node |-> "Block", statements |-> statements]

ExpressionStatement(expression) == [node |-> "Expression", expression |-> <<expression>>]

ReturnStatement(return_value) == [node |-> "Return", return_value |-> return_value]

WhileStatement(condition, body) == [node |-> "While", condition |-> condition, body |-> body]

IntegerLiteral(value) == [node |-> "IntegerLiteral", value |-> value]

\* pairs is a HashMap: the sequence is the order its iteration gives
HashLiteral(pairs) == [node |-> "HashLiteral", pairs |-> pairs]

\* the characters of the decimal text of a number
RECURSIVE decimal_chars(_)
decimal_chars(n) ==
    IF n < 10 THEN <<48 + n>> ELSE decimal_chars(n \div 10) \o <<48 + (n % 10)>>

\* to_string of an integer literal (of a value from 0 to 65535): the
\* characters of its text
to_string(expr) == decimal_chars(expr.value[7] * 256 + expr.value[8])

\* the order of String: by the first character that differs, a prefix first
RECURSIVE string_lt(_, _)
string_lt(a, b) ==
    CASE b = <<>> -> FALSE
      [] a = <<>> -> TRUE
      [] a[1] # b[1] -> a[1] < b[1]
      [] OTHER -> string_lt(Tail(a), Tail(b))

StringLiteral(literal) == [node |-> "StringLiteral", literal |-> literal]

BooleanLiteral(value) == [node |-> "Boolean", value |-> value]

PrefixExpression(operator, right) ==
    [node |-> "PrefixExpression", operator |-> operator, right |-> <<right>>]

InfixExpression(left, operator, right) ==
    [node |-> "InfixExpression", left |-> <<left>>, operator |-> operator, right |-> <<right>>]

\* alternative is <<>> or <<block>>
IfExpression(condition, consequence, alternative) ==
    [node |-> "IfExpression", condition |-> condition, consequence |-> consequence,
     alternative |-> alternative]

FunctionLiteral(parameters, body) ==
    [node |-> "FunctionLiteral", parameters |-> parameters, body |-> body]

CallExpression(function, arguments) ==
    [node |-> "CallExpression", function |-> function, arguments |-> arguments]

AssignmentExpression(ident, value) ==
    [node |-> "Assignment", ident |-> Identifier(ident), value |-> value]

(***************************************************************************)
(* The compiler, src/compiler/mod.rs and src/compiler/compile.rs.  A       *)
(* compiler state is a record c; status and msg are as for the machine.    *)
(* scope_index is 0-based as in the source: the active scope is            *)
(* scopes[scope_index + 1].                                                *)
(***************************************************************************)
EmittedInstruction(opcode, position) == [opcode |-> opcode, position |-> position]

\* patches is history kept for stating properties, which no compile step
\* reads: for every if expression compiled in the scope, the positions
\* compile_if_expression held in its local variables.
CompilationScope_default ==
    [instructions |-> <<>>,
     last_instruction |-> EmittedInstruction(0, 0),
     previous_instruction |-> EmittedInstruction(0, 0),
     patches |-> <<>>]

Compiler_new_with_state(symbol_table, consts) ==
    [constants |-> consts,
     symbol_table |-> symbol_table,
     scopes |-> <<CompilationScope_default>>,
     scope_index |-> 0,
     \* history: for every function compiled, the index of its constant with
     \* the patches of its scope, its body before the return was put at its
     \* end, the free symbols of its table and that table, and the active
     \* scope before enter_scope, after it and after leave_scope
     patched |-> <<>>,
     \* history: for every identifier compiled, what resolve returned and the
     \* bytes compile_identifier appended
     loads |-> <<>>,
     \* history: for every call of add_constant, the index it returned and
     \* the object
     added |-> <<>>,
     status |-> "ok",
     msg |-> NoMsg]

Compiler_new == Compiler_new_with_state(<<SymbolTable_new>>, <<>>)

current_instructions(c) == c.scopes[c.scope_index + 1].instructions

byte_code(c) == [instructions |-> current_instructions(c), constants |-> c.constants]

set_last_instruction(c, opcode, position) ==
    [c EXCEPT !.scopes[c.scope_index + 1].previous_instruction =
                  c.scopes[c.scope_index + 1].last_instruction,
              !.scopes[c.scope_index + 1].last_instruction =
                  EmittedInstruction(opcode, position)]

\* the position emit returns is Len(current_instructions(c)) before the call
emit(c, op, operands) ==
    LET made == make(op, operands)
        pos_new_instruction == Len(current_instructions(c))
    IN IF made.panic # "" THEN Panic(c, made.panic)
       ELSE set_last_instruction(
                [c EXCEPT !.scopes[c.scope_index + 1].instructions = @ \o made.bytes],
                op, pos_new_instruction)

enter_scope(c) ==
    [c EXCEPT !.symbol_table = new_enclosed(@),
              !.scopes = Append(@, CompilationScope_default),
              !.scope_index = @ + 1]

\* a variant of leave_scope that keeps the table of the scope it leaves
leave_scope_keeps_table(c) ==
    IF Len(c.symbol_table) < 2 \/ c.scope_index = 0
    THEN Panic(c, "called Option::unwrap() on a None value")
    ELSE [c EXCEPT !.scopes = SubSeq(@, 1, Len(@) - 1),
                   !.scope_index = @ - 1]

\* what a compiler state tells of its active scope
active_scope(c) ==
    [scope_index |-> c.scope_index,
     scopes |-> Len(c.scopes),
     scope |-> c.scopes[c.scope_index + 1],
     tables |-> c.symbol_table]

\* the instructions leave_scope returns are current_instructions(c) before the call
leave_scope(c) ==
    IF Len(c.symbol_table) < 2 \/ c.scope_index = 0
    THEN Panic(c, "called Option::unwrap() on a None value")
    ELSE [c EXCEPT !.scopes = SubSeq(@, 1, Len(@) - 1),
                   !.symbol_table = SubSeq(@, 1, Len(@) - 1),
                   !.scope_index = @ - 1]

remove_last_pop(c) ==
    LET scope == c.scopes[c.scope_index + 1]
    IN [c EXCEPT !.scopes[c.scope_index + 1].instructions =
                     SubSeq(@, 1, scope.last_instruction.position),
                 !.scopes[c.scope_index + 1].last_instruction = scope.previous_instruction]

\* a variant of add_constant that returns the entry of an equal constant of
\* the pool where there is one
add_constant_reusing_equal(c, obj) ==
    IF \E k \in 1..Len(c.constants) : c.constants[k] = obj
    THEN [c EXCEPT !.added = Append(@, [index |-> Len(c.constants) - 1, obj |-> obj])]
    ELSE [c EXCEPT !.constants = Append(@, obj),
                   !.added = Append(@, [index |-> Len(c.constants), obj |-> obj])]

\* the index add_constant returns is constants.len() - 1 after the push
add_constant(c, obj) ==
    [c EXCEPT !.constants = Append(@, obj),
              !.added = Append(@, [index |-> Len(c.constants), obj |-> obj])]

last_instruction_is(c, op) ==
    IF current_instructions(c) = <<>> THEN FALSE
    ELSE c.scopes[c.scope_index + 1].last_instruction.opcode = op

replace_instruction(c, position, ins) ==
    IF position + Len(ins) > Len(current_instructions(c))
    THEN Panic(c, "range end index out of range for slice")
    ELSE [c EXCEPT !.scopes[c.scope_index + 1].instructions =
                       [k \in 1..Len(@) |->
                           IF k > position /\ k <= position + Len(ins)
                           THEN ins[k - position] ELSE @[k]]]

\* a variant of change_operand that leaves the placeholder operand in place
change_operand_skipped(c, op_pos, operand) == c

change_operand(c, op_pos, operand) ==
    LET op == current_instructions(c)[op_pos + 1]
        made == make(op, <<operand>>)
    IN IF made.panic # "" THEN Panic(c, made.panic)
       ELSE replace_instruction(c, op_pos, made.bytes)

\* `?` after a call: what follows runs on the state the call returned,
\* unless the call failed
and_then(c0, rest(_)) ==
    CHOOSE r \in {IF c.status # "ok" THEN c ELSE rest(c) : c \in {c0}} : TRUE

RECURSIVE compile(_, _)

\* a sequence of compile calls, each followed by `?`
RECURSIVE compile_all(_, _, _)
compile_all(c, nodes, i) ==
    IF i > Len(nodes) THEN c
    ELSE and_then(compile(c, nodes[i]), LAMBDA c1 : compile_all(c1, nodes, i + 1))

compile_expression_statement(c, stmt) ==
    IF stmt.expression = <<>>
    THEN Err(c, "expression statement should contain an expression", <<>>)
    ELSE and_then(compile(c, stmt.expression[1]), LAMBDA c1 : emit(c1, OP_POP, <<>>))

\* the value is compiled before the name is defined
compile_let_statements(c, s) ==
    and_then(compile(c, s.value), LAMBDA c1 :
        LET d == define(c1.symbol_table, s.name.value)
        IN and_then([c1 EXCEPT !.symbol_table = d.tables], LAMBDA c2 :
            IF is_local(d.symbol)
            THEN emit(c2, OP_SET_LOCAL, <<d.symbol.index>>)
            ELSE emit(c2, OP_SET_GLOBAL, <<d.symbol.index>>)))

compile_identifier(c, v) ==
    LET r == resolve(c.symbol_table, Len(c.symbol_table), v.value)
    IN and_then([c EXCEPT !.symbol_table = r.tables], LAMBDA c1 :
       and_then(IF r.symbol = <<>> THEN Err(c1, "undefined variable", <<v.value>>)
                ELSE IF is_local(r.symbol[1])
                THEN emit(c1, OP_GET_LOCAL, <<r.symbol[1].index>>)
                ELSE emit(c1, OP_GET_GLOBAL, <<r.symbol[1].index>>), LAMBDA c2 :
       [c2 EXCEPT !.loads = Append(@,
            [symbol |-> r.symbol[1],
             emitted |-> SubSeq(current_instructions(c2), Len(current_instructions(c1)) + 1,
                                Len(current_instructions(c2)))])]))

\* a variant of compile_infix_expression without the swap for `<`
compile_infix_expression_left_first(c, expr) ==
    and_then(compile_all(c, <<expr.left[1], expr.right[1]>>, 1), LAMBDA c1 :
        CASE expr.operator = "+" -> emit(c1, OP_ADD, <<>>)
          [] expr.operator = "-" -> emit(c1, OP_SUB, <<>>)
          [] expr.operator = "*" -> emit(c1, OP_MUL, <<>>)
          [] expr.operator = "/" -> emit(c1, OP_DIV, <<>>)
          [] expr.operator \in {">", "<"} -> emit(c1, OP_GREATER_THAN, <<>>)
          [] expr.operator = "==" -> emit(c1, OP_EQUAL, <<>>)
          [] expr.operator = "!=" -> emit(c1, OP_NOT_EQUAL, <<>>)
          [] OTHER -> Err(c1, "unknown arithmetic operator", <<expr.operator>>))

compile_infix_expression(c, expr) ==
    IF expr.left = <<>>
    THEN Err(c, "infix expression should contain a left expression", <<>>)
    ELSE IF expr.right = <<>>
    THEN Err(c, "infix expression should contain a right expression", <<>>)
    ELSE and_then(IF expr.operator = "<"
                  THEN compile_all(c, <<expr.right[1], expr.left[1]>>, 1)
                  ELSE compile_all(c, <<expr.left[1], expr.right[1]>>, 1),
         LAMBDA c1 :
            CASE expr.operator = "+" -> emit(c1, OP_ADD, <<>>)
              [] expr.operator = "-" -> emit(c1, OP_SUB, <<>>)
              [] expr.operator = "*" -> emit(c1, OP_MUL, <<>>)
              [] expr.operator = "/" -> emit(c1, OP_DIV, <<>>)
              [] expr.operator \in {">", "<"} -> emit(c1, OP_GREATER_THAN, <<>>)
              [] expr.operator = "==" -> emit(c1, OP_EQUAL, <<>>)
              [] expr.operator = "!=" -> emit(c1, OP_NOT_EQUAL, <<>>)
              [] OTHER -> Err(c1, "unknown arithmetic operator", <<expr.operator>>))

compile_prefix_expression(c, expr) ==
    IF expr.right = <<>>
    THEN Err(c, "prefix expression should contain a right expression", <<>>)
    ELSE and_then(compile(c, expr.right[1]), LAMBDA c1 :
            CASE expr.operator = "-" -> emit(c1, OP_MINUS, <<>>)
              [] expr.operator = "!" -> emit(c1, OP_BANG, <<>>)
              [] OTHER -> Err(c1, "unknown prefix expression", <<expr.operator>>))

RECURSIVE define_parameters(_, _, _)
define_parameters(tables, parameters, i) ==
    IF i > Len(parameters) THEN tables
    ELSE define_parameters(define(tables, parameters[i].value).tables, parameters, i + 1)

\* "replace last pop with return"
\* a variant of replace_last_pop_with_return that leaves the POP in place
replace_last_pop_with_return_skipped(c) == c

replace_last_pop_with_return(c) ==
    IF last_instruction_is(c, OP_POP)
    THEN and_then(replace_instruction(c, c.scopes[c.scope_index + 1].last_instruction.position,
                                      make(OP_RETURN_VALUE, <<>>).bytes),
            LAMBDA c1 :
                [c1 EXCEPT !.scopes[c1.scope_index + 1].last_instruction.opcode = OP_RETURN_VALUE])
    ELSE c

\* CompiledFunctionObj::new is given the instructions leave_scope returned;
\* num_args is the number of parameters
compile_function_literals(c, expr) ==
    and_then(enter_scope(c), LAMBDA c1 :
    and_then([c1 EXCEPT !.symbol_table = define_parameters(@, expr.parameters, 1)], LAMBDA c2 :
    and_then(compile(c2, expr.body), LAMBDA c3 :
    and_then(replace_last_pop_with_return(c3), LAMBDA c4 :
    and_then(IF ~last_instruction_is(c4, OP_RETURN_VALUE)
             THEN emit(c4, OP_RETURN, <<>>) ELSE c4, LAMBDA c5 :
    and_then(leave_scope(c5), LAMBDA c6 :
    and_then(add_constant(c6, CompiledFunctionObj(current_instructions(c5),
                                                  Len(expr.parameters))), LAMBDA c7 :
    emit([c7 EXCEPT !.patched = Append(@, [constant |-> Len(c7.constants) - 1,
                                           patches |-> c5.scopes[c5.scope_index + 1].patches,
                                           body |-> current_instructions(c3),
                                           free |-> c5.symbol_table[Len(c5.symbol_table)].free_symbols,
                                           table |-> c5.symbol_table[Len(c5.symbol_table)],
                                           entered |-> active_scope(c),
                                           inner |-> active_scope(c1),
                                           left |-> active_scope(c6)])],
         OP_CONSTANT, <<Len(c7.constants) - 1>>))))))))

compile_if_expression(c, expr) ==
    and_then(compile(c, expr.condition), LAMBDA c1 :
    \* jump_not_truthy_position is Len(current_instructions(c1))
    and_then(emit(c1, OP_JUMP_NOT_TRUTHY, <<9999>>), LAMBDA c2 :
    and_then(compile(c2, expr.consequence), LAMBDA c3 :
    and_then(IF last_instruction_is(c3, OP_POP) THEN remove_last_pop(c3) ELSE c3, LAMBDA c4 :
    \* jump_position is Len(current_instructions(c4))
    and_then(emit(c4, OP_JUMP, <<9999>>), LAMBDA c5 :
    and_then(change_operand(c5, Len(current_instructions(c1)),
                            Len(current_instructions(c5))), LAMBDA c6 :
    and_then(IF expr.alternative = <<>>
             THEN emit(c6, OP_NULL, <<>>)
             ELSE and_then(compile(c6, expr.alternative[1]), LAMBDA c7 :
                     IF last_instruction_is(c7, OP_POP) THEN remove_last_pop(c7) ELSE c7),
             LAMBDA c8 :
    and_then(change_operand(c8, Len(current_instructions(c4)), Len(current_instructions(c8))),
             LAMBDA c9 :
    [c9 EXCEPT !.scopes[c9.scope_index + 1].patches =
        Append(@, [jump_not_truthy_position |-> Len(current_instructions(c1)),
                   jump_position |-> Len(current_instructions(c4)),
                   after_consequence_pos |-> Len(current_instructions(c5)),
                   after_alternative_pos |-> Len(current_instructions(c8)),
                   alternative |-> expr.alternative # <<>>])]))))))))

compile_integer_literal(c, v) ==
    and_then(add_constant(c, Integer(v.value)), LAMBDA c1 :
        emit(c1, OP_CONSTANT, <<Len(c1.constants) - 1>>))

compile_string_literal(c, v) ==
    and_then(add_constant(c, StringObj(v.literal)), LAMBDA c1 :
        emit(c1, OP_CONSTANT, <<Len(c1.constants) - 1>>))

compile_boolean_literal(c, v) ==
    IF v.value THEN emit(c, OP_TRUE, <<>>) ELSE emit(c, OP_FALSE, <<>>)

compile_call_expressions(c, v) ==
    and_then(compile(c, v.function), LAMBDA c1 :
    and_then(compile_all(c1, v.arguments, 1), LAMBDA c2 :
    emit(c2, OP_CALL, <<Len(v.arguments)>>)))

compile_assignment_expression(c, v) ==
    and_then(compile(c, v.value), LAMBDA c1 :
        LET r == resolve(c1.symbol_table, Len(c1.symbol_table), v.ident.value)
        IN and_then([c1 EXCEPT !.symbol_table = r.tables], LAMBDA c2 :
            IF r.symbol = <<>>
            THEN Err(c2, "variable with name not found", <<v.ident.value>>)
            ELSE emit(c2, OP_ASSIGN_GLOBAL, <<r.symbol[1].index>>)))

\* a variant of sort_by_key that leaves the keys as the iteration gave them
sort_by_key_skipped(keys) == keys

\* keys.sort_by_key(|expr| expr.to_string()): a stable sort, keys of equal
\* text keep their order
RECURSIVE sort_by_key(_)
sort_by_key(keys) ==
    IF keys = <<>> THEN <<>>
    ELSE LET last == keys[Len(keys)]
             sorted == sort_by_key(SubSeq(keys, 1, Len(keys) - 1))
             before == Cardinality({i \in 1..Len(sorted) :
                                        ~string_lt(to_string(last), to_string(sorted[i]))})
         IN SubSeq(sorted, 1, before) \o <<last>> \o SubSeq(sorted, before + 1, Len(sorted))

\* the loop of compile_hash_literal from key i on: the value removed from
\* pairs for the key, the key compiled, then the value
RECURSIVE compile_pairs(_, _, _, _)
compile_pairs(c, pairs, keys, i) ==
    IF i > Len(keys) THEN c
    ELSE LET value == pairs[CHOOSE k \in 1..Len(pairs) : pairs[k].key = keys[i]].value
         IN and_then(compile(c, keys[i]), LAMBDA c1 :
                and_then(compile(c1, value), LAMBDA c2 :
                    compile_pairs(c2, pairs, keys, i + 1)))

compile_hash_literal(c, expr) ==
    LET n_keys == Len(expr.pairs)
        keys == sort_by_key([i \in 1..n_keys |-> expr.pairs[i].key])
    IN and_then(compile_pairs(c, expr.pairs, keys, 1), LAMBDA c1 :
            emit(c1, OP_HASH, <<n_keys>>))

compile(c, node) ==
    CASE node.node \in {"Program", "Block"} -> compile_all(c, node.statements, 1)
      [] node.node = "Let" -> compile_let_statements(c, node)
      [] node.node = "Expression" -> compile_expression_statement(c, node)
      [] node.node = "Return" ->
            and_then(compile(c, node.return_value), LAMBDA c1 : emit(c1, OP_RETURN_VALUE, <<>>))
      [] node.node = "While" -> Panic(c, "not implemented")
      [] node.node = "IntegerLiteral" -> compile_integer_literal(c, node)
      [] node.node = "StringLiteral" -> compile_string_literal(c, node)
      [] node.node = "Boolean" -> compile_boolean_literal(c, node)
      [] node.node = "PrefixExpression" -> compile_prefix_expression(c, node)
      [] node.node = "InfixExpression" -> compile_infix_expression(c, node)
      [] node.node = "IfExpression" -> compile_if_expression(c, node)
      [] node.node = "HashLiteral" -> compile_hash_literal(c, node)
      [] node.node = "Identifier" -> compile_identifier(c, node)
      [] node.node = "FunctionLiteral" -> compile_function_literals(c, node)
      [] node.node = "CallExpression" -> compile_call_expressions(c, node)
      [] node.node = "Assignment" -> compile_assignment_expression(c, node)

(***************************************************************************)
(* Program texts given to the compiler, each with the syntax tree the      *)
(* parser returns for it.                                                  *)
(***************************************************************************)
Source(text, statements) == [name |-> text, arg |-> 0, ast |-> ProgramNode(statements)]

S_two_expressions ==
    Source("13; 27",
        <<ExpressionStatement(IntegerLiteral(i64(13))), ExpressionStatement(IntegerLiteral(i64(27)))>>)

S_let_only == Source("let a = 5;", <<LetStatement("a", IntegerLiteral(i64(5)))>>)

S_expression_then_let ==
    Source("1; let a = 2;",
        <<ExpressionStatement(IntegerLiteral(i64(1))), LetStatement("a", IntegerLiteral(i64(2)))>>)

S_globals ==
    Source("let a = 10; let b = 20; a + b;",
        <<LetStatement("a", IntegerLiteral(i64(10))), LetStatement("b", IntegerLiteral(i64(20))),
          ExpressionStatement(InfixExpression(Identifier("a"), "+", Identifier("b")))>>)

S_arithmetic ==
    Source("(5 + 10 * 2 + 15 / 3) * 2 + -10 - 1",
        <<ExpressionStatement(
            InfixExpression(
                InfixExpression(
                    InfixExpression(
                        InfixExpression(
                            InfixExpression(IntegerLiteral(i64(5)), "+",
                                InfixExpression(IntegerLiteral(i64(10)), "*", IntegerLiteral(i64(2)))),
                            "+",
                            InfixExpression(IntegerLiteral(i64(15)), "/", IntegerLiteral(i64(3)))),
                        "*", IntegerLiteral(i64(2))),
                    "+", PrefixExpression("-", IntegerLiteral(i64(10)))),
                "-", IntegerLiteral(i64(1))))>>)

S_if_false_bang ==
    Source("!(if (false) { 5; })",
        <<ExpressionStatement(
            PrefixExpression("!",
                IfExpression(BooleanLiteral(FALSE),
                    BlockStatement(<<ExpressionStatement(IntegerLiteral(i64(5)))>>), <<>>)))>>)

S_if_else ==
    Source("if (1 < 2) { 10 } else { 20 }",
        <<ExpressionStatement(
            IfExpression(InfixExpression(IntegerLiteral(i64(1)), "<", IntegerLiteral(i64(2))),
                BlockStatement(<<ExpressionStatement(IntegerLiteral(i64(10)))>>),
                <<BlockStatement(<<ExpressionStatement(IntegerLiteral(i64(20)))>>)>>))>>)

S_comparisons ==
    Source("(1 > 2) == false; true != false;",
        <<ExpressionStatement(
            InfixExpression(InfixExpression(IntegerLiteral(i64(1)), ">", IntegerLiteral(i64(2))),
                "==", BooleanLiteral(FALSE))),
          ExpressionStatement(
            InfixExpression(BooleanLiteral(TRUE), "!=", BooleanLiteral(FALSE)))>>)

S_strings ==
    Source("'mon' + 'key'",
        <<ExpressionStatement(
            InfixExpression(StringLiteral("mon"), "+", StringLiteral("key")))>>)

S_assignment ==
    Source("let x = 10; x = 20; x;",
        <<LetStatement("x", IntegerLiteral(i64(10))),
          ExpressionStatement(AssignmentExpression("x", IntegerLiteral(i64(20)))),
          ExpressionStatement(Identifier("x"))>>)

S_global_skipped ==
    Source("if (false) { let a = 1; }; let b = 2; b;",
        <<ExpressionStatement(
            IfExpression(BooleanLiteral(FALSE),
                BlockStatement(<<LetStatement("a", IntegerLiteral(i64(1)))>>), <<>>)),
          LetStatement("b", IntegerLiteral(i64(2))),
          ExpressionStatement(Identifier("b"))>>)

\* the body of a function bound by let names the function
S_fact ==
    Source("let fact = fn(n) { if (n < 2) { 1 } else { n * fact(n - 1) } }; fact(5);",
        <<LetStatement("fact",
            FunctionLiteral(<<Identifier("n")>>,
                BlockStatement(<<ExpressionStatement(
                    IfExpression(InfixExpression(Identifier("n"), "<", IntegerLiteral(i64(2))),
                        BlockStatement(<<ExpressionStatement(IntegerLiteral(i64(1)))>>),
                        <<BlockStatement(<<ExpressionStatement(
                            InfixExpression(Identifier("n"), "*",
                                CallExpression(Identifier("fact"),
                                    <<InfixExpression(Identifier("n"), "-",
                                                      IntegerLiteral(i64(1)))>>)))>>)>>))>>))),
          ExpressionStatement(CallExpression(Identifier("fact"), <<IntegerLiteral(i64(5))>>))>>)

S_self_value ==
    Source("let f = fn() { f }; 1;",
        <<LetStatement("f",
            FunctionLiteral(<<>>, BlockStatement(<<ExpressionStatement(Identifier("f"))>>))),
          ExpressionStatement(IntegerLiteral(i64(1)))>>)

S_function_value ==
    Source("let a = 1; let f = fn(b) { let c = 2; a + b + c }; 3;",
        <<LetStatement("a", IntegerLiteral(i64(1))),
          LetStatement("f",
            FunctionLiteral(<<Identifier("b")>>,
                BlockStatement(<<LetStatement("c", IntegerLiteral(i64(2))),
                                 ExpressionStatement(
                                    InfixExpression(
                                        InfixExpression(Identifier("a"), "+", Identifier("b")),
                                        "+", Identifier("c")))>>))),
          ExpressionStatement(IntegerLiteral(i64(3)))>>)

S_empty_function ==
    Source("fn() { }; fn() { return 1; };",
        <<ExpressionStatement(FunctionLiteral(<<>>, BlockStatement(<<>>))),
          ExpressionStatement(FunctionLiteral(<<>>,
            BlockStatement(<<ReturnStatement(IntegerLiteral(i64(1)))>>)))>>)

S_call ==
    Source("fn() { 1 }();",
        <<ExpressionStatement(
            CallExpression(
                FunctionLiteral(<<>>, BlockStatement(<<ExpressionStatement(IntegerLiteral(i64(1)))>>)),
                <<>>))>>)

S_nested_if ==
    Source("if (true) { if (false) { 1 } else { 2 } } else { if (true) { 3 } }; 4;",
        <<ExpressionStatement(
            IfExpression(BooleanLiteral(TRUE),
                BlockStatement(<<ExpressionStatement(
                    IfExpression(BooleanLiteral(FALSE),
                        BlockStatement(<<ExpressionStatement(IntegerLiteral(i64(1)))>>),
                        <<BlockStatement(<<ExpressionStatement(IntegerLiteral(i64(2)))>>)>>))>>),
                <<BlockStatement(<<ExpressionStatement(
                    IfExpression(BooleanLiteral(TRUE),
                        BlockStatement(<<ExpressionStatement(IntegerLiteral(i64(3)))>>),
                        <<>>))>>)>>)),
          ExpressionStatement(IntegerLiteral(i64(4)))>>)

S_if_in_function ==
    Source("if (true) { 1 }; fn(c) { if (c) { if (c) { 1 } } else { let x = 2; } };",
        <<ExpressionStatement(
            IfExpression(BooleanLiteral(TRUE),
                BlockStatement(<<ExpressionStatement(IntegerLiteral(i64(1)))>>), <<>>)),
          ExpressionStatement(
            FunctionLiteral(<<Identifier("c")>>,
                BlockStatement(<<ExpressionStatement(
                    IfExpression(Identifier("c"),
                        BlockStatement(<<ExpressionStatement(
                            IfExpression(Identifier("c"),
                                BlockStatement(<<ExpressionStatement(
                                    IntegerLiteral(i64(1)))>>),
                                <<>>))>>),
                        <<BlockStatement(<<LetStatement("x", IntegerLiteral(i64(2)))>>)>>))>>)))>>)

S_if_false ==
    Source("if (false) { 10 }",
        <<ExpressionStatement(
            IfExpression(BooleanLiteral(FALSE),
                BlockStatement(<<ExpressionStatement(IntegerLiteral(i64(10)))>>), <<>>))>>)

S_if_let ==
    Source("if (true) { let a = 1; }; 2;",
        <<ExpressionStatement(
            IfExpression(BooleanLiteral(TRUE),
                BlockStatement(<<LetStatement("a", IntegerLiteral(i64(1)))>>), <<>>)),
          ExpressionStatement(IntegerLiteral(i64(2)))>>)

S_if_empty ==
    Source("if (true) { }; 2;",
        <<ExpressionStatement(IfExpression(BooleanLiteral(TRUE), BlockStatement(<<>>), <<>>)),
          ExpressionStatement(IntegerLiteral(i64(2)))>>)

S_assign_local ==
    Source("let g = 1; fn(a) { a = 5; a };",
        <<LetStatement("g", IntegerLiteral(i64(1))),
          ExpressionStatement(
            FunctionLiteral(<<Identifier("a")>>,
                BlockStatement(<<ExpressionStatement(
                                    AssignmentExpression("a", IntegerLiteral(i64(5)))),
                                 ExpressionStatement(Identifier("a"))>>)))>>)

S_if_greater ==
    Source("if (1 > 2) { 10 }",
        <<ExpressionStatement(
            IfExpression(InfixExpression(IntegerLiteral(i64(1)), ">", IntegerLiteral(i64(2))),
                BlockStatement(<<ExpressionStatement(IntegerLiteral(i64(10)))>>), <<>>))>>)

S_builtin_value ==
    Source("let a = 1; is_null; a;",
        <<LetStatement("a", IntegerLiteral(i64(1))),
          ExpressionStatement(Identifier("is_null")),
          ExpressionStatement(Identifier("a"))>>)

\* the definitions of test_define: two in the global table, two in each of
\* two enclosed tables
S_define ==
    Source("let a = 1; let b = 2; fn(c, d) { fn(e) { let f = 3; let e = 4; } };",
        <<LetStatement("a", IntegerLiteral(i64(1))),
          LetStatement("b", IntegerLiteral(i64(2))),
          ExpressionStatement(
            FunctionLiteral(<<Identifier("c"), Identifier("d")>>,
                BlockStatement(<<ExpressionStatement(
                    FunctionLiteral(<<Identifier("e")>>,
                        BlockStatement(<<LetStatement("f", IntegerLiteral(i64(3))),
                                         LetStatement("e", IntegerLiteral(i64(4)))>>)))>>)))>>)

S_div_zero ==
    Source("10 / 0;",
        <<ExpressionStatement(InfixExpression(IntegerLiteral(i64(10)), "/",
                                              IntegerLiteral(i64(0))))>>)

S_add_overflow ==
    Source("9223372036854775807 + 1;",
        <<ExpressionStatement(InfixExpression(IntegerLiteral(I64_MAX), "+",
                                              IntegerLiteral(i64(1))))>>)

S_undefined == Source("1; x;", <<ExpressionStatement(IntegerLiteral(i64(1))),
                                 ExpressionStatement(Identifier("x"))>>)

S_undefined_in_function ==
    Source("fn() { y };",
        <<ExpressionStatement(
            FunctionLiteral(<<>>, BlockStatement(<<ExpressionStatement(Identifier("y"))>>)))>>)

S_top_level_return == Source("return 5;", <<ReturnStatement(IntegerLiteral(i64(5)))>>)

S_let_a_1 == Source("let a = 1;", <<LetStatement("a", IntegerLiteral(i64(1)))>>)

S_let_a_2 == Source("let a = 2;", <<LetStatement("a", IntegerLiteral(i64(2)))>>)

S_let_b_7 == Source("let b = 7;", <<LetStatement("b", IntegerLiteral(i64(7)))>>)

S_let_b_minus_true ==
    Source("let b = -true;", <<LetStatement("b", PrefixExpression("-", BooleanLiteral(TRUE)))>>)

S_let_c_undefined == Source("let c = y;", <<LetStatement("c", Identifier("y"))>>)

S_read_a == Source("a;", <<ExpressionStatement(Identifier("a"))>>)

S_read_b == Source("b;", <<ExpressionStatement(Identifier("b"))>>)

S_unknown_assignment ==
    Source("y = 1;", <<ExpressionStatement(AssignmentExpression("y", IntegerLiteral(i64(1))))>>)

S_while ==
    Source("while (true) { 1; }",
        <<WhileStatement(BooleanLiteral(TRUE),
                         BlockStatement(<<ExpressionStatement(IntegerLiteral(i64(1)))>>))>>)

\* the programs in which a function bound by let refers to itself by name
SelfReferring == {S_fact, S_self_value}

\* integer operands in increasing order: a literal, or the negation of one
Operands ==
    {[text |-> "-9223372036854775807", order |-> 1, literal |-> I64_MAX, negated |-> TRUE],
     [text |-> "-1", order |-> 2, literal |-> i64(1), negated |-> TRUE],
     [text |-> "0", order |-> 3, literal |-> i64(0), negated |-> FALSE],
     [text |-> "2", order |-> 4, literal |-> i64(2), negated |-> FALSE],
     [text |-> "9223372036854775807", order |-> 5, literal |-> I64_MAX, negated |-> FALSE]}

InfixOperators == {"+", "-", "*", "/", ">", "<", "==", "!="}

operand_expression(x) ==
    IF x.negated THEN PrefixExpression("-", IntegerLiteral(x.literal))
    ELSE IntegerLiteral(x.literal)

\* `l op r` for two integer operands
S_infix(op, l, r) ==
    [name |-> l.text \o " " \o op \o " " \o r.text, arg |-> <<op, l, r>>,
     ast |-> ProgramNode(<<ExpressionStatement(
                InfixExpression(operand_expression(l), op, operand_expression(r)))>>)]

\* function bodies by the shape of their end: empty, an expression, a return,
\* a let, an if expression, a nested function
FunctionBodies ==
    {[text |-> "", parameters |-> <<>>, statements |-> <<>>],
     [text |-> "5", parameters |-> <<>>,
      statements |-> <<ExpressionStatement(IntegerLiteral(i64(5)))>>],
     [text |-> "1; 2", parameters |-> <<>>,
      statements |-> <<ExpressionStatement(IntegerLiteral(i64(1))),
                       ExpressionStatement(IntegerLiteral(i64(2)))>>],
     [text |-> "return 5;", parameters |-> <<>>,
      statements |-> <<ReturnStatement(IntegerLiteral(i64(5)))>>],
     [text |-> "return 1; 2", parameters |-> <<>>,
      statements |-> <<ReturnStatement(IntegerLiteral(i64(1))),
                       ExpressionStatement(IntegerLiteral(i64(2)))>>],
     [text |-> "5; return 6;", parameters |-> <<>>,
      statements |-> <<ExpressionStatement(IntegerLiteral(i64(5))),
                       ReturnStatement(IntegerLiteral(i64(6)))>>],
     [text |-> "let x = 5;", parameters |-> <<>>,
      statements |-> <<LetStatement("x", IntegerLiteral(i64(5)))>>],
     [text |-> "let x = 5; x", parameters |-> <<>>,
      statements |-> <<LetStatement("x", IntegerLiteral(i64(5))),
                       ExpressionStatement(Identifier("x"))>>],
     [text |-> "a", parameters |-> <<Identifier("a")>>,
      statements |-> <<ExpressionStatement(Identifier("a"))>>],
     [text |-> "if (true) { return 1; }", parameters |-> <<>>,
      statements |-> <<ExpressionStatement(
            IfExpression(BooleanLiteral(TRUE),
                BlockStatement(<<ReturnStatement(IntegerLiteral(i64(1)))>>), <<>>))>>],
     [text |-> "if (true) { } else { }", parameters |-> <<>>,
      statements |-> <<ExpressionStatement(
            IfExpression(BooleanLiteral(TRUE), BlockStatement(<<>>),
                         <<BlockStatement(<<>>)>>))>>],
     [text |-> "fn() { a }", parameters |-> <<Identifier("a")>>,
      statements |-> <<ExpressionStatement(
            FunctionLiteral(<<>>, BlockStatement(<<ExpressionStatement(Identifier("a"))>>)))>>],
     [text |-> "fn() { fn() { a } }", parameters |-> <<Identifier("a")>>,
      statements |-> <<ExpressionStatement(
            FunctionLiteral(<<>>, BlockStatement(<<ExpressionStatement(
                FunctionLiteral(<<>>,
                    BlockStatement(<<ExpressionStatement(Identifier("a"))>>)))>>)))>>],
     [text |-> "len", parameters |-> <<>>,
      statements |-> <<ExpressionStatement(Identifier("len"))>>],
     [text |-> "fn() { }", parameters |-> <<>>,
      statements |-> <<ExpressionStatement(FunctionLiteral(<<>>, BlockStatement(<<>>)))>>],
     [text |-> "let g = fn() { 1 };", parameters |-> <<>>,
      statements |-> <<LetStatement("g",
            FunctionLiteral(<<>>,
                BlockStatement(<<ExpressionStatement(IntegerLiteral(i64(1)))>>)))>>]}

\* `fn(..) { body };`
S_function(b) ==
    [name |-> "fn(..) { " \o b.text \o " };", arg |-> 0,
     ast |-> ProgramNode(<<ExpressionStatement(
                FunctionLiteral(b.parameters, BlockStatement(b.statements)))>>)]

FunctionSources == {S_function(b) : b \in FunctionBodies}

\* the name of a builtin as an expression statement, at the top level, in a
\* function and in a function of a function
S_builtin(b, depth) ==
    LET use == ExpressionStatement(Identifier(b[2]))
        fn(statement) == ExpressionStatement(FunctionLiteral(<<>>, BlockStatement(<<statement>>)))
    IN CASE depth = 0 -> [name |-> b[2] \o ";", arg |-> 0, ast |-> ProgramNode(<<use>>)]
         [] depth = 1 -> [name |-> "fn() { " \o b[2] \o " };", arg |-> 0,
                          ast |-> ProgramNode(<<fn(use)>>)]
         [] depth = 2 -> [name |-> "fn() { fn() { " \o b[2] \o " } };", arg |-> 0,
                          ast |-> ProgramNode(<<fn(fn(use))>>)]

BuiltinSources ==
    {S_builtin(BUILTIN_FUNCTIONS[i], depth) : i \in 1..Len(BUILTIN_FUNCTIONS), depth \in 0..2}

InfixSources == {S_infix(op, l, r) : op \in InfixOperators, l \in Operands, r \in Operands}

Sources ==
    InfixSources \cup FunctionSources \cup BuiltinSources \cup
    {S_two_expressions, S_let_only, S_expression_then_let, S_globals, S_arithmetic,
     S_if_false_bang, S_if_else, S_comparisons, S_strings, S_assignment, S_global_skipped,
     S_fact, S_self_value, S_function_value, S_empty_function, S_call, S_nested_if,
     S_if_in_function, S_if_false, S_if_greater, S_builtin_value, S_define,
     S_if_let, S_if_empty, S_assign_local, S_undefined_in_function, S_top_level_return,
     S_let_a_1, S_let_a_2, S_let_b_7, S_let_b_minus_true, S_let_c_undefined, S_read_a, S_read_b,
     S_div_zero,
     S_add_overflow, S_undefined,
     S_unknown_assignment, S_while}

\* Parser::parse_program on a program text
parse_program(text) == (CHOOSE s \in Sources : s.name = text).ast

(***************************************************************************)
(* Bytecode given to VM::new directly.  Each is the bytecode of the source *)
(* text given with it, laid out as the handlers of src/vm/run.rs decode    *)
(* it.                                                                     *)
(***************************************************************************)
\* bounds of the families of programs
MaxGlobalIndex == 2
MaxStore == 2
\* the model stops calling at this many frames (the native stack ends the
\* recursion of run() somewhere above MAX_FRAMES)
FrameCap == 1026

Program(name, listing, consts) ==
    [name |-> name, arg |-> 0, bytecode |-> ByteCode(listing, consts), globals |-> <<>>]

\* is_null(5); len("abc"); len(1, 2);
P_builtins ==
    Program("is_null(5); len('abc'); len(1, 2);",
        <<<<OP_GET_BUILTIN, 5>>, <<OP_CONSTANT, 0>>, <<OP_CALL, 1>>, <<OP_POP>>,
          <<OP_GET_BUILTIN, 1>>, <<OP_CONSTANT, 1>>, <<OP_CALL, 1>>, <<OP_POP>>,
          <<OP_GET_BUILTIN, 1>>, <<OP_CONSTANT, 2>>, <<OP_CONSTANT, 3>>, <<OP_CALL, 2>>,
          <<OP_POP>>>>,
        <<Integer(i64(5)), StringObj("abc"), Integer(i64(1)), Integer(i64(2))>>)

Fn(listing, num_args) == CompiledFunctionObj(assemble(listing), num_args)

\* let newAdder = fn(a) { fn(b) { a + b } }; let addTwo = newAdder(2); addTwo(3);
P_new_adder ==
    Program("let newAdder = fn(a) { fn(b) { a + b } }; let addTwo = newAdder(2); addTwo(3);",
        <<<<OP_CLOSURE, 1, 0>>, <<OP_SET_GLOBAL, 0>>,
          <<OP_GET_GLOBAL, 0>>, <<OP_CONSTANT, 2>>, <<OP_CALL, 1>>, <<OP_SET_GLOBAL, 1>>,
          <<OP_GET_GLOBAL, 1>>, <<OP_CONSTANT, 3>>, <<OP_CALL, 1>>, <<OP_POP>>>>,
        <<Fn(<<<<OP_GET_FREE, 0>>, <<OP_GET_LOCAL, 0>>, <<OP_ADD>>, <<OP_RETURN_VALUE>>>>, 1),
          Fn(<<<<OP_GET_LOCAL, 0>>, <<OP_CLOSURE, 0, 1>>, <<OP_RETURN_VALUE>>>>, 1),
          Integer(i64(2)), Integer(i64(3))>>)

\* let f = fn(x) { fn() { x } }; let g = f(1); g();
P_capture ==
    Program("let f = fn(x) { fn() { x } }; let g = f(1); g();",
        <<<<OP_CLOSURE, 1, 0>>, <<OP_SET_GLOBAL, 0>>,
          <<OP_GET_GLOBAL, 0>>, <<OP_CONSTANT, 2>>, <<OP_CALL, 1>>, <<OP_SET_GLOBAL, 1>>,
          <<OP_GET_GLOBAL, 1>>, <<OP_CALL, 0>>, <<OP_POP>>>>,
        <<Fn(<<<<OP_GET_FREE, 0>>, <<OP_RETURN_VALUE>>>>, 0),
          Fn(<<<<OP_GET_LOCAL, 0>>, <<OP_CLOSURE, 0, 1>>, <<OP_RETURN_VALUE>>>>, 1),
          Integer(i64(1))>>)

\* let fact = fn(n) { if (n < 2) { 1 } else { n * fact(n - 1) } }; fact(5);
P_fact ==
    Program("let fact = fn(n) { if (n < 2) { 1 } else { n * fact(n - 1) } }; fact(5);",
        <<<<OP_CLOSURE, 3, 0>>, <<OP_SET_GLOBAL, 0>>,
          <<OP_GET_GLOBAL, 0>>, <<OP_CONSTANT, 4>>, <<OP_CALL, 1>>, <<OP_POP>>>>,
        <<Integer(i64(2)), Integer(i64(1)), Integer(i64(1)),
          Fn(<<<<OP_CONSTANT, 0>>, <<OP_GET_LOCAL, 0>>, <<OP_GREATER_THAN>>,
               <<OP_JUMP_NOT_TRUTHY, 15>>, <<OP_CONSTANT, 1>>, <<OP_JUMP, 29>>,
               <<OP_GET_LOCAL, 0>>, <<OP_GET_GLOBAL, 0>>, <<OP_GET_LOCAL, 0>>,
               <<OP_CONSTANT, 2>>, <<OP_SUB>>, <<OP_CALL, 1>>, <<OP_MUL>>,
               <<OP_RETURN_VALUE>>>>, 1),
          Integer(i64(5))>>)

\* let calc = fn(a, b) { let c = a + b; let d = 10; d - c; }; calc(1, 2);
P_locals_in_order ==
    Program("let calc = fn(a, b) { let c = a + b; let d = 10; d - c; }; calc(1, 2);",
        <<<<OP_CLOSURE, 1, 0>>, <<OP_SET_GLOBAL, 0>>, <<OP_GET_GLOBAL, 0>>,
          <<OP_CONSTANT, 2>>, <<OP_CONSTANT, 3>>, <<OP_CALL, 2>>, <<OP_POP>>>>,
        <<Integer(i64(10)),
          Fn(<<<<OP_GET_LOCAL, 0>>, <<OP_GET_LOCAL, 1>>, <<OP_ADD>>, <<OP_SET_LOCAL, 2>>,
               <<OP_CONSTANT, 0>>, <<OP_SET_LOCAL, 3>>, <<OP_GET_LOCAL, 3>>,
               <<OP_GET_LOCAL, 2>>, <<OP_SUB>>, <<OP_RETURN_VALUE>>>>, 2),
          Integer(i64(1)), Integer(i64(2))>>)

\* fn(c) { if (c) { let x = 1; }; let y = 2; y }(false);
P_local_skipped ==
    Program("fn(c) { if (c) { let x = 1; }; let y = 2; y }(false);",
        <<<<OP_CLOSURE, 2, 0>>, <<OP_FALSE>>, <<OP_CALL, 1>>, <<OP_POP>>>>,
        <<Integer(i64(1)), Integer(i64(2)),
          Fn(<<<<OP_GET_LOCAL, 0>>, <<OP_JUMP_NOT_TRUTHY, 13>>, <<OP_CONSTANT, 0>>,
               <<OP_SET_LOCAL, 1>>, <<OP_JUMP, 14>>, <<OP_NULL>>, <<OP_POP>>,
               <<OP_CONSTANT, 1>>, <<OP_SET_LOCAL, 2>>, <<OP_GET_LOCAL, 2>>,
               <<OP_RETURN_VALUE>>>>, 1)>>)

\* fn() { 1 + if (true) { return 2 } }();
P_return_in_operand ==
    Program("fn() { 1 + if (true) { return 2 } }();",
        <<<<OP_CLOSURE, 2, 0>>, <<OP_CALL, 0>>, <<OP_POP>>>>,
        <<Integer(i64(1)), Integer(i64(2)),
          Fn(<<<<OP_CONSTANT, 0>>, <<OP_TRUE>>, <<OP_JUMP_NOT_TRUTHY, 14>>,
               <<OP_CONSTANT, 1>>, <<OP_RETURN_VALUE>>, <<OP_JUMP, 15>>, <<OP_NULL>>,
               <<OP_ADD>>, <<OP_RETURN_VALUE>>>>, 0)>>)

\* let noReturn = fn() { }; let one = fn() { 1 }; let x = 5 + one(); noReturn();
P_returns ==
    Program("let noReturn = fn() { }; let one = fn() { 1 }; let x = 5 + one(); noReturn();",
        <<<<OP_CLOSURE, 0, 0>>, <<OP_SET_GLOBAL, 0>>, <<OP_CLOSURE, 2, 0>>,
          <<OP_SET_GLOBAL, 1>>, <<OP_CONSTANT, 3>>, <<OP_GET_GLOBAL, 1>>, <<OP_CALL, 0>>,
          <<OP_ADD>>, <<OP_SET_GLOBAL, 2>>, <<OP_GET_GLOBAL, 0>>, <<OP_CALL, 0>>, <<OP_POP>>>>,
        <<Fn(<<<<OP_RETURN>>>>, 0), Integer(i64(1)),
          Fn(<<<<OP_CONSTANT, 1>>, <<OP_RETURN_VALUE>>>>, 0), Integer(i64(5))>>)

\* let g = 1; let f = fn(a) { a = 5; a }; f(2); g; with the function as
\* compile makes it
P_assign_local ==
    Program("let g = 1; let f = fn(a) { a = 5; a }; f(2); g;",
        <<<<OP_CONSTANT, 0>>, <<OP_SET_GLOBAL, 0>>, <<OP_CLOSURE, 2, 0>>,
          <<OP_SET_GLOBAL, 1>>, <<OP_GET_GLOBAL, 1>>, <<OP_CONSTANT, 3>>, <<OP_CALL, 1>>,
          <<OP_POP>>, <<OP_GET_GLOBAL, 0>>, <<OP_POP>>>>,
        SubSeq(compile(Compiler_new, S_assign_local.ast).constants, 1, 3)
            \o <<Integer(i64(2))>>)

\* fn(a, b) { a + b; }(1);
P_too_few_arguments ==
    Program("fn(a, b) { a + b; }(1);",
        <<<<OP_CLOSURE, 0, 0>>, <<OP_CONSTANT, 1>>, <<OP_CALL, 1>>, <<OP_POP>>>>,
        <<Fn(<<<<OP_GET_LOCAL, 0>>, <<OP_GET_LOCAL, 1>>, <<OP_ADD>>, <<OP_RETURN_VALUE>>>>, 2),
          Integer(i64(1))>>)

\* fn() { 1; }(1);
P_too_many_arguments ==
    Program("fn() { 1; }(1);",
        <<<<OP_CLOSURE, 1, 0>>, <<OP_CONSTANT, 0>>, <<OP_CALL, 1>>, <<OP_POP>>>>,
        <<Integer(i64(1)), Fn(<<<<OP_CONSTANT, 0>>, <<OP_RETURN_VALUE>>>>, 0)>>)

\* let id = fn(a) { a }; let f = fn() { 3 + id() }; f();
P_nested_wrong_arguments ==
    Program("let id = fn(a) { a }; let f = fn() { 3 + id() }; f();",
        <<<<OP_CLOSURE, 0, 0>>, <<OP_SET_GLOBAL, 0>>, <<OP_CLOSURE, 2, 0>>,
          <<OP_SET_GLOBAL, 1>>, <<OP_GET_GLOBAL, 1>>, <<OP_CALL, 0>>, <<OP_POP>>>>,
        <<Fn(<<<<OP_GET_LOCAL, 0>>, <<OP_RETURN_VALUE>>>>, 1), Integer(i64(3)),
          Fn(<<<<OP_CONSTANT, 1>>, <<OP_GET_GLOBAL, 0>>, <<OP_CALL, 0>>, <<OP_ADD>>,
               <<OP_RETURN_VALUE>>>>, 0)>>)

\* a line of the REPL, `let g = 9; g;` with g the global of index i, run
\* on the global store the earlier lines left
P_repl_line(i, store) ==
    [name |-> "let g = 9; g;", arg |-> i,
     bytecode |-> ByteCode(<<<<OP_CONSTANT, 0>>, <<OP_SET_GLOBAL, i>>,
                             <<OP_GET_GLOBAL, i>>, <<OP_POP>>>>, <<Integer(i64(9))>>),
     globals |-> store]

\* a line of the REPL, `g;` with g the global of index i
P_repl_read(i, store) ==
    [name |-> "g;", arg |-> i,
     bytecode |-> ByteCode(<<<<OP_GET_GLOBAL, i>>, <<OP_POP>>>>, <<>>),
     globals |-> store]

\* the global stores new_with_global_store is given: Integer 1, 2, ... in order
Stores == {[k \in 1..n |-> Integer(i64(k))] : n \in 0..MaxStore}

\* [true, true, ..., true] with STACK_SIZE + 1 elements
P_big_array ==
    [name |-> "[true, ..., true]", arg |-> 0,
     bytecode |-> [instructions |-> [k \in 1..(STACK_SIZE + 1) |-> OP_TRUE]
                                    \o encode(<<OP_ARRAY, STACK_SIZE + 1>>) \o <<OP_POP>>,
                   constants |-> <<>>],
     globals |-> <<>>]

\* let f = fn() { f() }; f();
P_unbounded_recursion ==
    Program("let f = fn() { f() }; f();",
        <<<<OP_CLOSURE, 0, 0>>, <<OP_SET_GLOBAL, 0>>, <<OP_GET_GLOBAL, 0>>, <<OP_CALL, 0>>,
          <<OP_POP>>>>,
        <<Fn(<<<<OP_GET_GLOBAL, 0>>, <<OP_CALL, 0>>, <<OP_RETURN_VALUE>>>>, 0)>>)

\* the operands the arithmetic is run on: the ends of i64, their neighbours
\* and small numbers
I64Samples ==
    {I64_MIN, wrapping_add(I64_MIN, i64(1)), i64(-3), i64(-1), i64(0), i64(1), i64(2),
     <<0, 0, 0, 1, 0, 0, 0, 0>>, <<64, 0, 0, 0, 0, 0, 0, 0>>, I64_MAX}

\* `a op b;` for an infix operator: CONSTANT 0, CONSTANT 1, op, POP
P_infix(op, a, b) ==
    [name |-> "a op b;", arg |-> <<op, a, b>>,
     bytecode |-> ByteCode(<<<<OP_CONSTANT, 0>>, <<OP_CONSTANT, 1>>, <<op>>, <<OP_POP>>>>,
                           <<Integer(a), Integer(b)>>),
     globals |-> <<>>]

\* `-a;`: CONSTANT 0, MINUS, POP
P_minus(a) ==
    [name |-> "-a;", arg |-> <<a>>,
     bytecode |-> ByteCode(<<<<OP_CONSTANT, 0>>, <<OP_MINUS>>, <<OP_POP>>>>, <<Integer(a)>>),
     globals |-> <<>>]

\* the operands whose truthiness is tried: how the program loads each
TruthSamples ==
    {[value |-> TRUE_OBJ, load |-> <<OP_TRUE>>],
     [value |-> FALSE_OBJ, load |-> <<OP_FALSE>>],
     [value |-> NULL, load |-> <<OP_NULL>>],
     [value |-> ArrayObj(<<>>), load |-> <<OP_ARRAY, 0>>],
     [value |-> Integer(i64(0)), load |-> <<OP_CONSTANT, 2>>],
     [value |-> Integer(i64(5)), load |-> <<OP_CONSTANT, 2>>],
     [value |-> Integer(i64(-1)), load |-> <<OP_CONSTANT, 2>>],
     [value |-> StringObj(""), load |-> <<OP_CONSTANT, 2>>],
     [value |-> StringObj("false"), load |-> <<OP_CONSTANT, 2>>]}

\* `if (v) { 10 } else { 20 }; !v; if (v) { 10 };` with the jump targets the
\* compiler computes for the load of v, which is 1 or 3 bytes long
P_truthy(v) ==
    LET L == IF Len(v.load) = 1 THEN 1 ELSE 3
    IN [name |-> "if (v) { 10 } else { 20 }; !v; if (v) { 10 };", arg |-> <<v.value>>,
        bytecode |-> ByteCode(
            <<v.load, <<OP_JUMP_NOT_TRUTHY, L + 9>>, <<OP_CONSTANT, 0>>, <<OP_JUMP, L + 12>>,
              <<OP_CONSTANT, 1>>, <<OP_POP>>,
              v.load, <<OP_BANG>>, <<OP_POP>>,
              v.load, <<OP_JUMP_NOT_TRUTHY, 3 * L + 24>>, <<OP_CONSTANT, 0>>,
              <<OP_JUMP, 3 * L + 25>>, <<OP_NULL>>, <<OP_POP>>>>,
            <<Integer(i64(10)), Integer(i64(20)), v.value>>),
        globals |-> <<>>]

\* the builtin of an index as an expression statement: GET_BUILTIN i, POP
P_get_builtin(i) ==
    [name |-> "GET_BUILTIN i", arg |-> <<i>>,
     bytecode |-> ByteCode(<<<<OP_GET_BUILTIN, i>>, <<OP_POP>>>>, <<>>),
     globals |-> <<>>]

\* let a = [1]; was run on an earlier line; b(a, 7, ...); a; with b the
\* builtin of index i and n arguments
MaxArgs == 3

P_builtin_call(i, n) ==
    [name |-> "b(a, 7, ...); a;", arg |-> <<i, n>>,
     bytecode |-> ByteCode(<<<<OP_GET_BUILTIN, i>>>>
                           \o [k \in 1..n |-> IF k = 1 THEN <<OP_GET_GLOBAL, 0>>
                                              ELSE <<OP_CONSTANT, 0>>]
                           \o <<<<OP_CALL, n>>, <<OP_POP>>, <<OP_GET_GLOBAL, 0>>, <<OP_POP>>>>,
                           <<Integer(i64(7))>>),
     globals |-> <<ArrayObj(<<Integer(i64(1))>>)>>]

Programs ==
    {P_builtin_call(i, n) : i \in 1..Len(BUILTIN_FUNCTIONS), n \in 0..MaxArgs} \cup
    {P_builtins, P_new_adder, P_capture, P_fact, P_locals_in_order, P_local_skipped,
     P_assign_local,
     P_return_in_operand, P_returns, P_too_few_arguments, P_too_many_arguments,
     P_nested_wrong_arguments, P_big_array, P_unbounded_recursion}
    \cup {P_repl_line(i, g) : i \in 0..MaxGlobalIndex, g \in Stores}
    \cup {P_repl_read(i, g) : i \in 0..MaxGlobalIndex, g \in Stores}
    \cup {P_infix(op, a, b) : op \in {OP_ADD, OP_SUB, OP_MUL, OP_DIV, OP_GREATER_THAN},
                              a \in I64Samples, b \in I64Samples}
    \cup {P_minus(a) : a \in I64Samples}
    \cup {P_truthy(v) : v \in TruthSamples}
    \cup {P_get_builtin(i) : i \in 0..(Len(BUILTIN_FUNCTIONS) + 1)}

(***************************************************************************)
(* The state machine: VM::new_with_global_store, then run().               *)
(***************************************************************************)
\* VM::new: the main frame wraps the program's instructions, arity 0
VM_new(bytecode) ==
    [constants |-> bytecode.constants,
     stack |-> <<>>,
     globals |-> <<>>,
     result |-> <<>>,
     frames |-> <<Frame_new(CompiledFunctionObj(bytecode.instructions, 0), <<>>)>>,
     frames_index |-> 1,
     run_depth |-> 1,
     status |-> "ok",
     msg |-> NoMsg]

VM_new_with_global_store(bytecode, s) == [VM_new(bytecode) EXCEPT !.globals = s]

\* the machine state the variables hold
VM ==
    [constants |-> constants, stack |-> stack, globals |-> globals, result |-> result,
     frames |-> frames, frames_index |-> frames_index, run_depth |-> run_depth,
     status |-> "ok", msg |-> msg]

Holds(m) ==
    /\ constants = m.constants
    /\ stack = m.stack
    /\ globals = m.globals
    /\ result = m.result
    /\ frames = m.frames
    /\ frames_index = m.frames_index
    /\ run_depth = m.run_depth
    /\ status = (IF m.status = "ok" THEN "running" ELSE m.status)
    /\ msg = m.msg

Commit(m) ==
    /\ constants' = m.constants
    /\ stack' = m.stack
    /\ globals' = m.globals
    /\ result' = m.result
    /\ frames' = m.frames
    /\ frames_index' = m.frames_index
    /\ run_depth' = m.run_depth
    /\ status' = (IF m.status = "ok" THEN "running" ELSE m.status)
    /\ msg' = m.msg
    /\ UNCHANGED <<input, overflow_checks, compiler, api>>

\* History of the run, kept for stating properties; no handler reads it.
\* popped: the value the last OP_POP consumed (empty before the first one).
\* bases: for every frame a CALL pushed and no return popped yet, the height
\* of the operand stack below the callee and its arguments.
NoHistory == popped = <<>> /\ bases = <<>>

Becomes(m) == Commit(m) /\ UNCHANGED <<popped, bases>>

\* api holds the state of a session of calls made directly on a module
\* (symbol table, code), as the unit tests make them; a run of
\* execute_program has no such session
NoCall == [op |-> "none"]

\* no machine exists before the program is compiled
NoVM ==
    [constants |-> <<>>, stack |-> <<>>, globals |-> <<>>, result |-> <<>>,
     frames |-> <<>>, frames_index |-> 0, run_depth |-> 0, status |-> "parsed", msg |-> NoMsg]

\* Either a program text was parsed and a compiler created for it
\* (execute_program), or a machine was created from bytecode.
Init ==
    /\ compiler = Compiler_new
    /\ api = NoCall
    /\ overflow_checks \in BOOLEAN
    /\ NoHistory
    /\ \/ \E s \in Sources :
            /\ input = [name |-> s.name, arg |-> s.arg]
            /\ Holds(NoVM)
       \/ \E p \in Programs :
            /\ input = [name |-> p.name, arg |-> p.arg]
            /\ Holds(VM_new_with_global_store(p.bytecode, p.globals))

\* comp.compile(program.make_node())
Compile ==
    /\ status = "parsed"
    /\ LET c == compile(compiler, parse_program(input.name))
       IN /\ compiler' = c
          /\ status' = (CASE c.status = "ok" -> "compiled"
                          [] c.status = "err" -> "compile_err"
                          [] OTHER -> "panic")
          /\ msg' = c.msg
    /\ UNCHANGED <<input, overflow_checks, api, constants, stack, globals, result, frames, frames_index,
                   run_depth, popped, bases>>

\* vm::VM::new(comp.byte_code())
NewVM ==
    /\ status = "compiled"
    /\ Becomes(VM_new(byte_code(compiler)))

\* the loop condition of run() holds: the active frame's ip is within its instructions
in_loop == 
    /\ status = "running"
    /\ current_frame(VM).ip < Len(instructions(current_frame(VM)))

\* the opcode the loop dispatches
current_op == instructions(current_frame(VM))[current_frame(VM).ip + 1]

\* one iteration of the loop: the handler, then `ip += 1` unless it failed
step(h) == IF h.status = "ok" THEN advance_ip(h) ELSE h

iteration(h) == Becomes(step(h))

\* the frame a return pops is no longer in the history
drop_base(h) == IF h.status = "ok" /\ bases # <<>> THEN SubSeq(bases, 1, Len(bases) - 1) ELSE bases

known_opcodes ==
    {OP_CONSTANT, OP_ADD, OP_SUB, OP_MUL, OP_DIV, OP_EQUAL, OP_NOT_EQUAL, OP_GREATER_THAN,
     OP_TRUE, OP_FALSE, OP_MINUS, OP_BANG, OP_SET_GLOBAL, OP_GET_GLOBAL, OP_SET_LOCAL,
     OP_GET_LOCAL, OP_ARRAY, OP_HASH, OP_INDEX, OP_CLOSURE, OP_CALL, OP_ASSIGN_GLOBAL,
     OP_GET_BUILTIN, OP_RETURN_VALUE, OP_RETURN, OP_POP, OP_JUMP_NOT_TRUTHY, OP_JUMP, OP_NULL}

Constant == in_loop /\ current_op = OP_CONSTANT /\ iteration(run_constant_instruction(VM))

Arithmetic ==
    /\ in_loop /\ current_op \in {OP_ADD, OP_SUB, OP_MUL, OP_DIV}
    /\ iteration(run_arithmetic_operations(VM, current_op))

Comparison ==
    /\ in_loop /\ current_op \in {OP_EQUAL, OP_NOT_EQUAL, OP_GREATER_THAN}
    /\ iteration(run_boolean_operations(VM, current_op))

True == in_loop /\ current_op = OP_TRUE /\ iteration(push(VM, TRUE_OBJ))

False == in_loop /\ current_op = OP_FALSE /\ iteration(push(VM, FALSE_OBJ))

Minus == in_loop /\ current_op = OP_MINUS /\ iteration(run_prefix_minus(VM))

Bang == in_loop /\ current_op = OP_BANG /\ iteration(run_prefix_bang(VM))

Array == in_loop /\ current_op = OP_ARRAY /\ iteration(run_array_literal_instruction(VM))

SetGlobal == in_loop /\ current_op = OP_SET_GLOBAL /\ iteration(run_set_global_instruction(VM))

GetGlobal == in_loop /\ current_op = OP_GET_GLOBAL /\ iteration(run_get_global_instruction(VM))

SetLocal == in_loop /\ current_op = OP_SET_LOCAL /\ iteration(run_set_local_instruction(VM))

GetLocal == in_loop /\ current_op = OP_GET_LOCAL /\ iteration(run_get_local_instruction(VM))

ClosureOp == in_loop /\ current_op = OP_CLOSURE /\ iteration(run_closure_instruction(VM))

\* a call of a closure pushes the frame and runs it in a nested run(): the
\* `ip += 1` of this iteration waits until that run() returns (RunReturns)
Call ==
    /\ in_loop /\ current_op = OP_CALL
    /\ Len(frames) < FrameCap
    /\ LET h == run_call_expression(VM)
       IN IF h.status = "ok" /\ h.run_depth > run_depth
          THEN Commit(h) /\ bases' = Append(bases, Len(h.stack)) /\ UNCHANGED popped
          ELSE iteration(h)

AssignGlobal ==
    in_loop /\ current_op = OP_ASSIGN_GLOBAL /\ iteration(run_assign_global_instruction(VM))

GetBuiltin == in_loop /\ current_op = OP_GET_BUILTIN /\ iteration(run_get_builtin(VM))

ReturnValue ==
    /\ in_loop /\ current_op = OP_RETURN_VALUE
    /\ LET h == run_return_value(VM)
       IN Commit(step(h)) /\ bases' = drop_base(h) /\ UNCHANGED popped

Return ==
    /\ in_loop /\ current_op = OP_RETURN
    /\ LET h == run_return(VM)
       IN Commit(step(h)) /\ bases' = drop_base(pop_frame(VM)) /\ UNCHANGED popped

Pop ==
    /\ in_loop /\ current_op = OP_POP
    /\ LET h == run_pop(VM)
       IN /\ Commit(step(h))
          /\ popped' = (IF h.status = "ok" THEN <<top(VM)>> ELSE popped)
          /\ UNCHANGED bases

JumpNotTruthy ==
    in_loop /\ current_op = OP_JUMP_NOT_TRUTHY /\ iteration(run_jump_not_truthy_instruction(VM))

Jump == in_loop /\ current_op = OP_JUMP /\ iteration(run_jump_instruction(VM))

Null == in_loop /\ current_op = OP_NULL /\ iteration(push(VM, NULL))

\* `_ => {}`: a byte that is no opcode of the match is skipped
NoOp == in_loop /\ current_op \notin known_opcodes /\ iteration(VM)

\* the loop condition fails: run() returns Ok.  A nested run() returns into
\* run_call_expression, whose iteration of the outer loop then ends.
RunReturns ==
    /\ status = "running"
    /\ current_frame(VM).ip >= Len(instructions(current_frame(VM)))
    /\ IF run_depth > 1
       THEN Becomes(advance_ip([VM EXCEPT !.run_depth = @ - 1]))
       ELSE /\ status' = "done"
            /\ UNCHANGED <<input, overflow_checks, api, constants, stack, globals, result, frames, frames_index,
                           run_depth, msg, popped, bases, compiler>>

Next ==
    \/ Compile \/ NewVM
    \/ Constant \/ Arithmetic \/ Comparison \/ True \/ False \/ Minus \/ Bang
    \/ SetGlobal \/ GetGlobal \/ SetLocal \/ GetLocal \/ ClosureOp \/ Call
    \/ Array \/ AssignGlobal \/ GetBuiltin \/ ReturnValue \/ Return \/ Pop
    \/ JumpNotTruthy \/ Jump \/ Null \/ NoOp \/ RunReturns

Spec == Init /\ [][Next]_vars

(***************************************************************************)
(* Calls made directly on a chain of symbol tables, as the tests of        *)
(* src/compiler/symbol_table.rs make them: api.tables is the chain, the    *)
(* last table being the innermost; a call is made on any table k of it,    *)
(* which sees the tables 1..k.  api.ret is what the call returned.         *)
(***************************************************************************)
MaxTables == 3

MaxCalls == 4

SymbolNames == {"a", "b", "len"}

\* the machine and the compiler of execute_program take no part
Idle ==
    /\ Holds(NoVM) /\ NoHistory
    /\ compiler = Compiler_new
    /\ overflow_checks = FALSE

StaysIdle ==
    UNCHANGED <<input, overflow_checks, constants, stack, globals, result, frames, frames_index,
                run_depth, status, msg, popped, bases, compiler>>

\* n tables, each but the first made by new_enclosed on the one before
RECURSIVE enclosed(_)
enclosed(n) == IF n = 1 THEN <<SymbolTable_new>> ELSE new_enclosed(enclosed(n - 1))

SymbolTableInit ==
    /\ Idle
    /\ input = [name |-> "symbol table", arg |-> 0]
    /\ \E n \in 1..MaxTables :
            api = [op |-> "new", tables |-> enclosed(n), k |-> n, name |-> "",
                   ret |-> <<>>, calls |-> 0]

\* the call op(name) on table k changed the tables 1..k to `tables` and
\* returned ret
Called(op, k, name, tables, ret) ==
    /\ api.calls < MaxCalls
    /\ api' = [op |-> op, k |-> k, name |-> name, ret |-> ret, calls |-> api.calls + 1,
               tables |-> tables \o SubSeq(api.tables, k + 1, Len(api.tables))]
    /\ StaysIdle

\* SymbolTable::new_enclosed(Rc::new(innermost))
NewEnclosed ==
    /\ Len(api.tables) < MaxTables
    /\ Called("new_enclosed", Len(api.tables) + 1, "", new_enclosed(api.tables), <<>>)

Define ==
    \E k \in 1..Len(api.tables), name \in SymbolNames :
        LET d == define(SubSeq(api.tables, 1, k), name)
        IN Called("define", k, name, d.tables, <<d.symbol>>)

\* define_builtin and define_function_name are called on the innermost table
DefineBuiltin ==
    LET k == Len(api.tables)
    IN Called("define_builtin", k, "a",
              [api.tables EXCEPT ![k] = define_builtin(@, Len(BUILTIN_FUNCTIONS) + 1, "a")],
              <<Symbol("a", BUILTIN_SCOPE, Len(BUILTIN_FUNCTIONS) + 1)>>)

DefineFunctionName ==
    LET d == define_function_name(api.tables, "a")
    IN Called("define_function_name", Len(api.tables), "a", d.tables, <<d.symbol>>)

Resolve ==
    \E k \in 1..Len(api.tables), name \in SymbolNames :
        LET r == resolve(SubSeq(api.tables, 1, k), k, name)
        IN Called("resolve", k, name, r.tables, r.symbol)

SymbolTableNext == NewEnclosed \/ Define \/ DefineBuiltin \/ DefineFunctionName \/ Resolve

SymbolTableSpec == SymbolTableInit /\ [][SymbolTableNext]_vars

\* C21: every call of define adds one to num_definitions of the table it is
\* made on and to no other; define_builtin, define_function_name, resolve
\* (with the FREE bindings it creates) and new_enclosed leave num_definitions
\* of every table as it was, so that it is the number of define calls made on
\* the table.
C21_NumDefinitionsCountsDefines ==
    /\ [][\A j \in 1..Len(api.tables) :
            api'.tables[j].table.num_definitions =
                api.tables[j].table.num_definitions
                + (IF api'.op = "define" /\ api'.k = j THEN 1 ELSE 0)]_vars
    /\ [](\A j \in 1..Len(api.tables) :
            api.tables[j].table.num_definitions = Len(api.tables[j].defined))

\* a table with two definitions of its own took a builtin and a function
\* name, and then a FREE binding by a resolve
C21_Witness ==
    /\ api.op = "resolve" /\ api.ret # <<>> /\ api.ret[1].scope = FREE_SCOPE
    /\ Len(api.tables[api.k].free_symbols) = 1
    /\ api.tables[api.k].table.num_definitions = 1
    /\ \E n \in DOMAIN api.tables[api.k].table.store :
            api.tables[api.k].table.store[n].scope = FUNCTION_SCOPE

\* C22: resolve(name) on a table T returns the binding of T's own store when
\* there is one; otherwise what the enclosing table resolves the name to
\* decides: nothing there, and the result is none and no table changes; a
\* GLOBAL or BUILTIN symbol, and it is returned as it is with T.free_symbols
\* untouched; a LOCAL or FREE symbol, and it is appended to T.free_symbols
\* and a FREE symbol indexed by its position there is stored in T and
\* returned.
C22_ResolveCapturesFree ==
    [][api'.op = "resolve" =>
        LET k == api'.k
            name == api'.name
            T == api.tables[k]
            after == api'.tables[k]
        IN IF name \in DOMAIN T.table.store
           THEN api'.ret = <<T.table.store[name]>> /\ api'.tables = api.tables
           ELSE IF k = 1
           THEN api'.ret = <<>> /\ api'.tables = api.tables
           ELSE LET o == resolve(SubSeq(api.tables, 1, k - 1), k - 1, name)
                IN /\ o.symbol = <<>> => api'.ret = <<>> /\ api'.tables = api.tables
                   /\ o.symbol # <<>> /\ o.symbol[1].scope \in {GLOBAL_SCOPE, BUILTIN_SCOPE} =>
                        /\ api'.ret = o.symbol
                        /\ after = T
                   /\ o.symbol # <<>> /\ o.symbol[1].scope \in {LOCAL_SCOPE, FREE_SCOPE} =>
                        /\ after.free_symbols = Append(T.free_symbols, o.symbol[1])
                        /\ api'.ret = <<Symbol(name, FREE_SCOPE, Len(T.free_symbols))>>
                        /\ after.table.store = insert(T.table.store, name, api'.ret[1])
                        /\ after.table.num_definitions = T.table.num_definitions]_vars

\* the innermost of three tables resolved two names the table before it
\* holds as LOCAL, and the second it captured has the index 1
C22_Witness ==
    /\ api.op = "resolve" /\ api.k = 3
    /\ api.ret = <<Symbol(api.name, FREE_SCOPE, 1)>>
    /\ Len(api.tables[3].free_symbols) = 2
    /\ api.tables[3].free_symbols[2] = Symbol(api.name, LOCAL_SCOPE, 1)

(***************************************************************************)
(* Properties of the virtual machine                                       *)
(***************************************************************************)
\* the operand of the instruction the loop dispatches
operand_u16 == read_u16(instructions(current_frame(VM)), current_frame(VM).ip + 1)

operand_u8 == read_u8(instructions(current_frame(VM)), current_frame(VM).ip + 1)

\* C1: after run() completed without error, result() is the value the most
\* recent OP_POP consumed, whatever other instructions popped after it.
C1_ResultIsLastPopped ==
    status = "done" /\ popped # <<>> => result = popped

\* C2: a program that ran to completion without executing any OP_POP has an
\* empty result().
C2_NoPopNoResult ==
    status = "done" /\ popped = <<>> => result = <<>>

\* C3: CLOSURE with free-count F pops the F values on top of the stack into
\* the closure it pushes, in the order they were pushed.
C3_ClosureCapturesFree ==
    [][in_loop /\ current_op = OP_CLOSURE /\ status' = "running" =>
        LET f == current_frame(VM)
            F == read_u8(instructions(f), f.ip + 3)
            n == Len(stack)
        IN F <= n =>
            /\ Len(stack') = n - F + 1
            /\ stack'[Len(stack')].t = "Closure"
            /\ stack'[Len(stack')].free = SubSeq(stack, n - F + 1, n)]_vars

\* C5: SET_GLOBAL i with v on top of the stack leaves globals[i] = v and
\* every other existing global unchanged, whatever the length of the globals
\* vector was.
C5_SetGlobalStoresAtIndex ==
    [][in_loop /\ current_op = OP_SET_GLOBAL /\ stack # <<>> /\ status' = "running" =>
        LET i == operand_u16
        IN /\ Len(globals') > i
           /\ globals'[i + 1] = top(VM)
           /\ \A k \in 1..Len(globals) : k # i + 1 => globals'[k] = globals[k]]_vars

\* C6: SET_LOCAL i stores the value on top of the stack in slot i of the
\* active frame's locals, whatever slots were written before.
C6_SetLocalStoresAtIndex ==
    [][in_loop /\ current_op = OP_SET_LOCAL /\ stack # <<>> /\ status' = "running" =>
        LET i == operand_u8
            locals == frames'[frames_index].locals
        IN /\ Len(locals) > i
           /\ locals[i + 1] = top(VM)]_vars

\* C7: when a call returns, the operand stack is the stack below the callee
\* and its arguments plus exactly one value: the value on top of the
\* callee's stack for RETURN_VALUE, Null for RETURN.
C7_ReturnLeavesOneValue ==
    [][/\ in_loop /\ current_op \in {OP_RETURN_VALUE, OP_RETURN}
       /\ bases # <<>> /\ status' = "running"
       =>
        LET base == bases[Len(bases)]
            returned == IF current_op = OP_RETURN \/ Len(stack) <= base THEN NULL ELSE top(VM)
        IN /\ Len(stack) > base \/ current_op = OP_RETURN
           /\ stack' = SubSeq(stack, 1, base) \o <<returned>>]_vars

\* the CALL the loop dispatches finds, below its N arguments, a closure whose
\* arity is not N
calls_closure_with_wrong_arity ==
    /\ in_loop /\ current_op = OP_CALL
    /\ Len(stack) > operand_u8
    /\ stack[Len(stack) - operand_u8].t = "Closure"
    /\ stack[Len(stack) - operand_u8].func.num_args # operand_u8

\* C8: CALL with N arguments on a closure of arity W # N fails with
\* `wrong number of arguments: want=W, got=N` and pushes no frame: the frames
\* and the active-frame index are as before (the ip of the active frame has
\* moved on to the operand of the CALL).
C8_WrongArityFails ==
    [][calls_closure_with_wrong_arity =>
        /\ status' = "err"
        /\ msg' = [text |-> "wrong number of arguments",
                   args |-> <<stack[Len(stack) - operand_u8].func.num_args, operand_u8>>]
        /\ frames_index' = frames_index
        /\ frames' = [frames EXCEPT ![frames_index].ip = @ + 1]]_vars

\* a CALL of a closure with one argument too few has failed, in the main
\* frame or in a called function
C8_Witness ==
    /\ status = "err"
    /\ msg.text = "wrong number of arguments"
    /\ msg.args \in {<<2, 1>>, <<1, 0>>}
    /\ Len(frames) = frames_index
    /\ current_frame(VM).ip > 0
    /\ instructions(current_frame(VM))[current_frame(VM).ip] = OP_CALL

\* C9: the operand stack never holds more than STACK_SIZE values; a push
\* onto a full stack fails with `stack overflow` and leaves the stack as it
\* was.
C9_StackBounded ==
    /\ [](Len(stack) <= STACK_SIZE)
    /\ [][status' = "err" /\ msg'.text = "stack overflow" =>
            Len(stack) = STACK_SIZE /\ stack' = stack]_vars
    /\ [][in_loop /\ current_op \in {OP_TRUE, OP_FALSE, OP_NULL} /\ Len(stack) = STACK_SIZE =>
            status' = "err" /\ msg'.text = "stack overflow" /\ stack' = stack]_vars

\* a push onto a full stack has failed
C9_Witness ==
    /\ status = "err"
    /\ msg.text = "stack overflow"
    /\ Len(stack) = STACK_SIZE

\* C10: the frame stack never holds more than MAX_FRAMES frames.
C10_FramesBounded == Len(frames) <= MAX_FRAMES

\* the two values on top of the stack, the right operand uppermost
right_operand == stack[Len(stack)]

left_operand == stack[Len(stack) - 1]

has_integer_operands ==
    Len(stack) >= 2 /\ is_integer(left_operand) /\ is_integer(right_operand)

\* C11: DIV of two integers with a zero divisor ends run() with an error value,
\* not with an abort of the process, and pushes no result.
C11_DivByZeroIsError ==
    [][in_loop /\ current_op = OP_DIV /\ has_integer_operands
       /\ right_operand.value = i64(0)
       => status' = "err" /\ stack' = SubSeq(stack, 1, Len(stack) - 2)]_vars

\* C12: ADD, SUB, MUL and prefix MINUS on integers never fail: they push the
\* result modulo 2^64, in every build.
C12_ArithmeticWraps ==
    [][/\ in_loop /\ Len(stack) < STACK_SIZE
       /\ \/ current_op \in {OP_ADD, OP_SUB, OP_MUL} /\ has_integer_operands
          \/ current_op = OP_MINUS /\ stack # <<>> /\ is_integer(right_operand)
       => /\ status' = "running"
          /\ stack'[Len(stack')] = Integer(
                CASE current_op = OP_ADD -> wrapping_add(left_operand.value, right_operand.value)
                  [] current_op = OP_SUB -> wrapping_sub(left_operand.value, right_operand.value)
                  [] current_op = OP_MUL -> wrapping_mul(left_operand.value, right_operand.value)
                  [] current_op = OP_MINUS -> wrapping_neg(right_operand.value))]_vars

not_truthy(v) == v.t = "Null" \/ (v.t = "Boolean" /\ ~v.bvalue)

\* C15: JUMP_NOT_TRUTHY jumps exactly when the popped value is FALSE or NULL,
\* so Integer 0, the empty string and the empty array count as truthy; BANG
\* replaces v by TRUE when v is FALSE or NULL and by FALSE otherwise; an if
\* without alternative whose condition is not truthy has the value Null.
C15_Truthiness ==
    /\ [][in_loop /\ stack # <<>> =>
            LET ip == current_frame(VM).ip
                rest == SubSeq(stack, 1, Len(stack) - 1)
            IN /\ current_op = OP_JUMP_NOT_TRUTHY
                    /\ can_read(instructions(current_frame(VM)), ip + 1, 2) =>
                       /\ stack' = rest
                       /\ frames'[frames_index].ip =
                            IF not_truthy(right_operand) THEN operand_u16 ELSE ip + 3
               /\ current_op = OP_BANG =>
                       /\ status' = "running"
                       /\ stack' = Append(rest, IF not_truthy(right_operand)
                                                THEN TRUE_OBJ ELSE FALSE_OBJ)]_vars
    /\ [](status = "done" /\ input.name = "if (v) { 10 } else { 20 }; !v; if (v) { 10 };"
            => result = <<IF not_truthy(input.arg[1]) THEN NULL ELSE Integer(i64(10))>>)
    /\ [](status = "done" /\ input.name \in {"if (false) { 10 }", "if (1 > 2) { 10 }"}
            => result = <<NULL>>)

\* the empty array went through all three statements as a truthy value
C15_Witness ==
    /\ status = "done"
    /\ input.name = "if (v) { 10 } else { 20 }; !v; if (v) { 10 };"
    /\ input.arg[1] = ArrayObj(<<>>)
    /\ result = <<Integer(i64(10))>>

is_infix_source == input.name \in {s.name : s \in InfixSources}

\* the listing of an operand that is the k-th constant
code_of(x, k) == <<<<OP_CONSTANT, k>>>> \o (IF x.negated THEN <<<<OP_MINUS>>>> ELSE <<>>)

infix_opcode(op) ==
    CASE op = "+" -> OP_ADD [] op = "-" -> OP_SUB [] op = "*" -> OP_MUL [] op = "/" -> OP_DIV
      [] op = "==" -> OP_EQUAL [] op = "!=" -> OP_NOT_EQUAL [] OTHER -> OP_GREATER_THAN

\* C16: `a < b` compiles to the code of b, the code of a and GREATER_THAN;
\* every other infix operator compiles its left operand first; for integer
\* operands `a < b` is true exactly when a is the smaller one, and `a > b`
\* when a is the greater one.
C16_LessThanIsSwappedGreaterThan ==
    is_infix_source =>
        LET op == input.arg[1]
            l == input.arg[2]
            r == input.arg[3]
            first == IF op = "<" THEN r ELSE l
            second == IF op = "<" THEN l ELSE r
        IN /\ status = "compiled" =>
                /\ current_instructions(compiler) =
                       assemble(code_of(first, 0) \o code_of(second, 1)
                                \o <<<<infix_opcode(op)>>, <<OP_POP>>>>)
                /\ compiler.constants = <<Integer(first.literal), Integer(second.literal)>>
           /\ status = "done" /\ op = "<" => result = <<Boolean(l.order < r.order)>>
           /\ status = "done" /\ op = ">" => result = <<Boolean(l.order > r.order)>>
           /\ op \in {"<", ">"} => status \notin {"err", "panic", "compile_err"}

\* `-9223372036854775807 < 2` has been compiled and run, and is true
C16_Witness ==
    /\ is_infix_source
    /\ input.arg[1] = "<" /\ input.arg[2].order = 1 /\ input.arg[3].order = 4
    /\ status = "done"
    /\ result = <<TRUE_OBJ>>

(***************************************************************************)
(* Properties of the compiler                                              *)
(***************************************************************************)
\* the byte offsets at which the instructions of a stream start, decoded with
\* the operand widths of lookup from offset pos on
RECURSIVE instruction_offsets(_, _)
instruction_offsets(ins, pos) ==
    IF pos >= Len(ins) THEN <<>>
    ELSE LET d == lookup(ins[pos + 1])
             w == IF d = <<>> THEN <<>> ELSE d[1].operand_widths
             len == 1 + (IF Len(w) > 0 THEN w[1] ELSE 0) + (IF Len(w) > 1 THEN w[2] ELSE 0)
         IN <<pos>> \o instruction_offsets(ins, pos + len)

\* the instruction streams the compiler has emitted, each with the history of
\* the if expressions compiled into it: the main program and every compiled
\* function of the constant pool
compiled_streams ==
    {[ins |-> current_instructions(compiler), patches |-> compiler.scopes[1].patches]}
    \cup {[ins |-> compiler.constants[compiler.patched[k].constant + 1].instructions,
           patches |-> compiler.patched[k].patches] : k \in 1..Len(compiler.patched)}

\* the symbol tables the compiler has used, each with whether it has an outer
\* table: those still linked, of which the first has none, and the one of
\* every function compiled
symbol_tables ==
    {[t |-> compiler.symbol_table[k], outer |-> k > 1] : k \in 1..Len(compiler.symbol_table)}
    \cup {[t |-> compiler.patched[k].table, outer |-> TRUE] : k \in 1..Len(compiler.patched)}

\* C20: define returns a symbol with the scope LOCAL when the table has an
\* outer table and GLOBAL otherwise, and the index num_definitions had before
\* the call, which the call increments: the successive definitions of a
\* table are numbered 0, 1, 2, .. whatever its enclosing tables hold.
C20_DefineNumbersFromZero ==
    status \in {"compiled", "compile_err"} =>
        \A e \in symbol_tables :
            /\ e.t.table.num_definitions = Len(e.t.defined)
            /\ \A i \in 1..Len(e.t.defined) :
                    /\ e.t.defined[i].num_definitions = i - 1
                    /\ e.t.defined[i].symbol.index = i - 1
                    /\ e.t.defined[i].symbol.scope =
                            IF e.outer THEN LOCAL_SCOPE ELSE GLOBAL_SCOPE

\* two definitions in the global table, a function with two parameters, and
\* inside it a function whose table got three definitions, one of them of a
\* name it already held
C20_Witness ==
    /\ status = "compiled"
    /\ Len(compiler.symbol_table) = 1
    /\ Len(compiler.symbol_table[1].defined) = 2
    /\ compiler.symbol_table[1].defined[2].symbol = Symbol("b", GLOBAL_SCOPE, 1)
    /\ \E k \in 1..Len(compiler.patched) :
            /\ Len(compiler.patched[k].table.defined) = 3
            /\ compiler.patched[k].table.defined[3].symbol = Symbol("e", LOCAL_SCOPE, 2)
    /\ \E k \in 1..Len(compiler.patched) :
            /\ Len(compiler.patched[k].table.defined) = 2
            /\ compiler.patched[k].table.defined[1].symbol = Symbol("c", LOCAL_SCOPE, 0)

\* C30: when compile has returned, with Ok or with Err, the pool holds one
\* entry for every call of add_constant, in the order of the calls: the
\* index a call returned is the length the pool had before it, and the
\* object is still at that index.
C30_ConstantPoolAppendOnly ==
    status \in {"compiled", "compile_err"} =>
        /\ Len(compiler.constants) = Len(compiler.added)
        /\ \A k \in 1..Len(compiler.added) :
                /\ compiler.added[k].index = k - 1
                /\ compiler.constants[k] = compiler.added[k].obj

\* a compilation failed after it had added a constant, or it added two equal
\* constants
C30_Witness ==
    \/ /\ status = "compile_err"
       /\ Len(compiler.constants) > 0
    \/ /\ status = "compiled"
       /\ \E j, k \in 1..Len(compiler.constants) :
                j < k /\ compiler.constants[j] = compiler.constants[k]

\* C24: for every function literal compiled, enter_scope made a new empty
\* scope and a new table the active ones, the function's stream is what was
\* emitted into that scope, and after leave_scope the scope index, the
\* number of scopes, the outer scope's instructions and its last and previous
\* emitted instruction are what they were before enter_scope, and the
\* current table is the one that was current then, with every binding it
\* had.
C24_LeaveScopeRestores ==
    status = "compiled" =>
        \A k \in 1..Len(compiler.patched) :
            LET e == compiler.patched[k].entered
                i == compiler.patched[k].inner
                l == compiler.patched[k].left
                fn == compiler.constants[compiler.patched[k].constant + 1].instructions
            IN /\ i.scope_index = e.scope_index + 1 /\ i.scopes = e.scopes + 1
               /\ i.scope.instructions = <<>>
               /\ Len(i.tables) = Len(e.tables) + 1
               /\ Len(fn) >= Len(compiler.patched[k].body)
               /\ l.scope_index = e.scope_index /\ l.scopes = e.scopes
               /\ l.scope.instructions = e.scope.instructions
               /\ l.scope.last_instruction = e.scope.last_instruction
               /\ l.scope.previous_instruction = e.scope.previous_instruction
               /\ Len(l.tables) = Len(e.tables)
               /\ \A j \in 1..Len(e.tables) :
                    /\ l.tables[j].table.num_definitions = e.tables[j].table.num_definitions
                    /\ \A n \in DOMAIN e.tables[j].table.store :
                            /\ n \in DOMAIN l.tables[j].table.store
                            /\ l.tables[j].table.store[n] = e.tables[j].table.store[n]

\* a function was compiled two functions deep and the table of the function
\* around it took a free symbol meanwhile; or one was compiled after the
\* scope around it had emitted instructions
C24_Witness ==
    /\ status = "compiled"
    /\ \E k \in 1..Len(compiler.patched) :
            LET e == compiler.patched[k].entered
                l == compiler.patched[k].left
            IN \/ /\ e.scope_index = 2
                  /\ e.tables[3].free_symbols = <<>>
                  /\ l.tables[3].free_symbols # <<>>
               \/ /\ e.scope.instructions # <<>>
                  /\ e.scope.last_instruction = l.scope.last_instruction
                  /\ Len(compiler.patched[k].body) > 0

\* C23: every builtin of BUILTIN_FUNCTIONS resolves, at the top level and
\* inside functions, to the BUILTIN symbol with its index of that table, no
\* table gets a free symbol for it, and GET_BUILTIN with the index of a
\* builtin pushes the builtin function of that name.
C23_BuiltinsResolveByIndex ==
    /\ [](status = "compiled" =>
            \A i \in 1..Len(BUILTIN_FUNCTIONS), depth \in 0..2 :
                input.name = S_builtin(BUILTIN_FUNCTIONS[i], depth).name =>
                    /\ Len(compiler.loads) = 1
                    /\ compiler.loads[1].symbol =
                            Symbol(BUILTIN_FUNCTIONS[i][2], BUILTIN_SCOPE, BUILTIN_FUNCTIONS[i][1])
                    /\ Len(compiler.patched) = depth
                    /\ \A k \in 1..Len(compiler.patched) :
                            /\ compiler.patched[k].table.free_symbols = <<>>
                            /\ compiler.patched[k].table.table.store
                                    = SymbolTable_new.table.store
                    /\ compiler.symbol_table = <<SymbolTable_new>>)
    /\ [][in_loop /\ current_op = OP_GET_BUILTIN
            /\ can_read(instructions(current_frame(VM)), current_frame(VM).ip + 1, 1)
            /\ Len(stack) < STACK_SIZE =>
            \A i \in 1..Len(BUILTIN_FUNCTIONS) :
                operand_u8 = BUILTIN_FUNCTIONS[i][1] =>
                    /\ status' = "running"
                    /\ Len(stack') = Len(stack) + 1
                    /\ stack'[Len(stack')].t = "BuiltinFunction"
                    /\ stack'[Len(stack')].fn_name = BUILTIN_FUNCTIONS[i][2]]_vars

\* GET_BUILTIN 8 has pushed the builtin sleep
C23_Witness ==
    /\ input.name = "GET_BUILTIN i"
    /\ status = "running"
    /\ stack = <<BuiltinFunctionObj("sleep", 1)>>

\* the load instruction the language gives a symbol, by its scope
load_of(symbol) ==
    CASE symbol.scope = LOCAL_SCOPE -> <<OP_GET_LOCAL, symbol.index>>
      [] symbol.scope = GLOBAL_SCOPE -> <<OP_GET_GLOBAL, symbol.index \div 256, symbol.index % 256>>
      [] symbol.scope = BUILTIN_SCOPE -> <<OP_GET_BUILTIN, symbol.index>>
      [] symbol.scope = FREE_SCOPE -> <<OP_GET_FREE, symbol.index>>
      [] OTHER -> <<>>

RECURSIVE loads_of(_, _)
loads_of(symbols, i) ==
    IF i > Len(symbols) THEN <<>> ELSE load_of(symbols[i]) \o loads_of(symbols, i + 1)

\* C18: a function literal compiles, in the enclosing stream, to the loads of
\* its captured free symbols in the order of capture followed by CLOSURE with
\* the index of the function's constant and the number of free symbols.
C18_FunctionLiteralIsClosure ==
    status = "compiled" =>
        \A k \in 1..Len(compiler.patched) :
            LET c == compiler.patched[k].constant
                free == compiler.patched[k].free
                code == loads_of(free, 1) \o <<OP_CLOSURE, c \div 256, c % 256, Len(free)>>
            IN \E s \in compiled_streams : \E o \in 0..(Len(s.ins) - Len(code)) :
                    SubSeq(s.ins, o + 1, o + Len(code)) = code

\* C19: an identifier compiles to the load instruction of its symbol's scope
\* with the symbol's index: GET_LOCAL, GET_GLOBAL, GET_BUILTIN or GET_FREE; an
\* identifier that does not resolve is a compile error and nothing is emitted
\* for it.
C19_IdentifierLoads ==
    /\ status \in {"compiled", "compile_err"} =>
            \A k \in 1..Len(compiler.loads) :
                compiler.loads[k].symbol.scope # FUNCTION_SCOPE =>
                    compiler.loads[k].emitted = load_of(compiler.loads[k].symbol)
    /\ status = "compile_err" /\ input.name = "1; x;" =>
            /\ msg.text = "undefined variable"
            /\ current_instructions(compiler) = <<OP_CONSTANT, 0, 0, OP_POP>>

\* the opcode of the last instruction of a stream that is not empty
last_opcode(ins) == ins[instruction_offsets(ins, 0)[Len(instruction_offsets(ins, 0))] + 1]

\* C17: the stream of every compiled function ends with RETURN_VALUE or
\* RETURN: an empty body is the single instruction RETURN, a body that ends
\* with POP has that POP overwritten by RETURN_VALUE, a body that ends with
\* RETURN_VALUE is left as it is, and any other body gets RETURN appended.
C17_FunctionsEndWithReturn ==
    status = "compiled" =>
        \A k \in 1..Len(compiler.patched) :
            LET body == compiler.patched[k].body
                fn == compiler.constants[compiler.patched[k].constant + 1].instructions
            IN /\ fn # <<>>
               /\ last_opcode(fn) \in {OP_RETURN_VALUE, OP_RETURN}
               /\ fn = (CASE body = <<>> -> <<OP_RETURN>>
                          [] body # <<>> /\ last_opcode(body) = OP_POP ->
                                SubSeq(body, 1, Len(body) - 1) \o <<OP_RETURN_VALUE>>
                          [] body # <<>> /\ last_opcode(body) = OP_RETURN_VALUE -> body
                          [] OTHER -> body \o <<OP_RETURN>>)

\* a program has been compiled with a function whose body ended with POP, one
\* that ended with another opcode, and an empty one
C17_Witness ==
    /\ status = "compiled"
    /\ \E k \in 1..Len(compiler.patched) : compiler.patched[k].body = <<>>
    /\ \E k \in 1..Len(compiler.patched) :
            /\ compiler.patched[k].body # <<>>
            /\ last_opcode(compiler.patched[k].body) = OP_POP

\* the offsets of the instructions of a stream that have the opcode op
offsets_of(ins, op) ==
    LET offsets == instruction_offsets(ins, 0)
    IN {offsets[k] : k \in {j \in 1..Len(offsets) : ins[offsets[j] + 1] = op}}

\* C13: in every instruction stream the compiler emits, every JUMP_NOT_TRUTHY
\* and JUMP belongs to an if expression and is patched: the operand of the
\* JUMP_NOT_TRUTHY is the offset just after the consequence's JUMP (where the
\* alternative starts, or the NULL when there is none), the operand of the
\* JUMP is the offset just after the alternative, both are starts of
\* instructions of the stream, and no placeholder remains.
C13_JumpsArePatched ==
    status = "compiled" =>
        \A s \in compiled_streams :
            LET starts == instruction_offsets(s.ins, 0)
                offsets == {starts[k] : k \in 1..Len(starts)}
            IN /\ offsets_of(s.ins, OP_JUMP_NOT_TRUTHY) =
                      {s.patches[k].jump_not_truthy_position : k \in 1..Len(s.patches)}
               /\ offsets_of(s.ins, OP_JUMP) =
                      {s.patches[k].jump_position : k \in 1..Len(s.patches)}
               /\ \A k \in 1..Len(s.patches) :
                    LET p == s.patches[k]
                        to_alternative == read_u16(s.ins, p.jump_not_truthy_position + 1)
                        to_end == read_u16(s.ins, p.jump_position + 1)
                    IN /\ to_alternative = p.jump_position + 3
                       /\ to_alternative = p.after_consequence_pos
                       /\ to_end = p.after_alternative_pos
                       /\ to_alternative <= to_end
                       /\ {to_alternative, to_end} \subseteq offsets
                       /\ ~p.alternative => s.ins[to_alternative + 1] = OP_NULL
                                              /\ to_end = to_alternative + 1

\* a function whose body holds an if expression inside the consequence of
\* another one has been compiled
C13_Witness ==
    /\ status = "compiled"
    /\ \E k \in 1..Len(compiler.patched) :
            LET p == compiler.patched[k].patches
            IN /\ Len(p) = 2
               /\ p[2].jump_not_truthy_position < p[1].jump_not_truthy_position
               /\ p[1].after_alternative_pos <= p[2].jump_position
               /\ ~p[1].alternative /\ p[2].alternative

\* C4: a program in which a function bound by let refers to itself by the
\* bound name compiles without an undefined-variable error.
C4_SelfReferenceCompiles ==
    input.name \in {s.name : s \in SelfReferring} =>
        ~(status = "compile_err" /\ msg.text = "undefined variable")


(***************************************************************************)
(* Instruction encoding as a function of its inputs: an opcode and a list  *)
(* of operands are drawn, make encodes them and read_operands decodes the  *)
(* bytes after the opcode byte, as test_make and test_read_operands do.    *)
(***************************************************************************)
MaxOperands == 2

MaxOpcode == 30

OperandValues == {0, 1, 255, 256, 65534, 65535, 65536}

OperandLists == UNION {[1..n -> OperandValues] : n \in 0..MaxOperands}

MakeInit ==
    /\ Idle
    /\ input = [name |-> "make", arg |-> 0]
    /\ \E op \in 0..MaxOpcode, operands \in OperandLists :
            api = [op |-> "new", opcode |-> op, operands |-> operands,
                   made |-> <<>>, read |-> <<>>]

Make ==
    /\ api.op = "new"
    /\ api' = [api EXCEPT !.op = "make", !.made = <<make(api.opcode, api.operands)>>]
    /\ StaysIdle

\* lookup(op).unwrap() and &instruction[1..] need a defined opcode
ReadOperands ==
    /\ api.op = "make"
    /\ lookup(api.opcode) # <<>>
    /\ api.made[1].panic = ""
    /\ api' = [api EXCEPT !.op = "read_operands",
                          !.read = <<read_operands(lookup(api.opcode)[1],
                                                   Tail(api.made[1].bytes))>>]
    /\ StaysIdle

MakeNext == Make \/ ReadOperands

MakeSpec == MakeInit /\ [][MakeNext]_vars

RECURSIVE sum_widths(_, _)
sum_widths(widths, n) == IF n = 0 THEN 0 ELSE sum_widths(widths, n - 1) + widths[n]

\* the operand list has one operand per width and each fits its width
fits_widths(op, operands) ==
    /\ lookup(op) # <<>>
    /\ Len(operands) = Len(lookup(op)[1].operand_widths)
    /\ \A i \in 1..Len(operands) :
            operands[i] < (IF lookup(op)[1].operand_widths[i] = 1 THEN 256 ELSE 65536)

\* C25: for a defined opcode and operands that fit its widths, make returns
\* the opcode byte followed by every operand, high byte first, at its width,
\* 1 + sum(widths) bytes in all, and read_operands of the bytes after the
\* opcode byte returns the operands and sum(widths).
C25_MakeReadOperandsInverse ==
    (api.op \in {"make", "read_operands"} /\ fits_widths(api.opcode, api.operands)) =>
        LET widths == lookup(api.opcode)[1].operand_widths
            bytes == api.made[1].bytes
        IN /\ api.made[1].panic = ""
           /\ Len(bytes) = 1 + sum_widths(widths, Len(widths))
           /\ bytes[1] = api.opcode
           /\ \A i \in 1..Len(widths) :
                LET at == 1 + sum_widths(widths, i - 1)
                IN IF widths[i] = 2
                   THEN /\ bytes[at + 1] = api.operands[i] \div 256
                        /\ bytes[at + 2] = api.operands[i] % 256
                   ELSE bytes[at + 1] = api.operands[i]
           /\ api.op = "read_operands" =>
                api.read[1] = [panic |-> "", operands |-> api.operands,
                               read |-> sum_widths(widths, Len(widths))]

\* OP_CONSTANT 65534 was made as 1, 255, 254 and read back
C25_Witness ==
    /\ api.op = "read_operands"
    /\ api.opcode = OP_CONSTANT
    /\ api.operands = <<65534>>
    /\ api.made[1].bytes = <<OP_CONSTANT, 255, 254>>
    /\ api.read[1].operands = <<65534>>
    /\ api.read[1].read = 2


\* lookup defines op with these operand widths
has_widths(op, widths) == lookup(op) # <<>> /\ lookup(op)[1].operand_widths = widths

\* C26: lookup gives CALL one 1-byte operand, CLOSURE a 2-byte and a 1-byte
\* operand, GET_BUILTIN and GET_FREE one 1-byte operand, and no emit of a
\* compilation passes more operands than the definition of its opcode
\* declares (make would index operand_widths out of bounds).
C26_LookupWidthsMatchEmits ==
    status \in {"compiled", "compile_err", "panic"} =>
        /\ ~(status = "panic" /\ msg.text = "index out of bounds")
        /\ has_widths(OP_CALL, <<1>>)
        /\ has_widths(OP_CLOSURE, <<2, 1>>)
        /\ has_widths(OP_GET_BUILTIN, <<1>>)
        /\ has_widths(OP_GET_FREE, <<1>>)


(***************************************************************************)
(* Disassembly, test_helpers of src/code/mod.rs: instructions_to_string    *)
(* goes through a byte stream one round of its loop at a time.  The stream *)
(* is what a compilation emitted, or instructions and bytes put together   *)
(* by concat_instructions as test_instructions_string does.                *)
(***************************************************************************)
MaxChunks == 3

MaxRepeats == 3

\* instructions of the tests, a byte that is no opcode, the closure
\* instruction of the virtual machine, and an instruction cut short
Chunks ==
    {make(OP_ADD, <<>>).bytes, make(OP_GET_LOCAL, <<253>>).bytes,
     make(OP_CONSTANT, <<2>>).bytes, make(OP_CONSTANT, <<65535>>).bytes,
     <<0>>, <<OP_CLOSURE, 255, 254, 1>>, <<OP_JUMP, 3>>}

RECURSIVE concat_instructions(_)
concat_instructions(chunks) ==
    IF chunks = <<>> THEN <<>>
    ELSE Head(chunks) \o concat_instructions(Tail(chunks))

DisassembledSources ==
    {S_two_expressions, S_let_only, S_globals, S_arithmetic, S_if_else, S_comparisons,
     S_strings, S_function_value, S_nested_if, S_if_in_function, S_define}

\* the streams of a finished compilation: the main program and every
\* compiled function
streams_of(c) ==
    IF c.status # "ok" THEN {}
    ELSE {current_instructions(c)}
         \cup {c.constants[c.patched[k].constant + 1].instructions : k \in 1..Len(c.patched)}

CompiledStreams == UNION {streams_of(compile(Compiler_new, s.ast)) : s \in DisassembledSources}

DisassemblyInit ==
    /\ Idle
    /\ input = [name |-> "disassembly", arg |-> 0]
    /\ \/ \E ins \in CompiledStreams :
            api = [op |-> "new", compiled |-> TRUE, ins |-> ins, i |-> 0, out |-> <<>>,
                   panic |-> "", formatted |-> <<>>]
       \/ \E n \in 1..MaxChunks : \E chunks \in [1..n -> Chunks] :
            api = [op |-> "new", compiled |-> FALSE, ins |-> concat_instructions(chunks),
                   i |-> 0, out |-> <<>>, panic |-> "", formatted |-> <<>>]

\* the strings pushed at the position the loop is at
repeats == Cardinality({k \in 1..Len(api.out) : api.out[k].at = api.i})

\* one round of `while i < ins.len()`
InstructionsToString ==
    /\ api.op \in {"new", "instructions_to_string"}
    /\ api.panic = ""
    /\ api.i < Len(api.ins)
    /\ repeats < MaxRepeats
    /\ api' = [instructions_to_string_step(api) EXCEPT !.op = "instructions_to_string"]
    /\ StaysIdle

\* helpers::format_instruction on the instruction the loop is at
FormatInstruction ==
    /\ api.op \in {"new", "instructions_to_string"}
    /\ api.panic = ""
    /\ api.i < Len(api.ins)
    /\ IF api.formatted = <<>> THEN TRUE ELSE api.formatted[1].at # api.i
    /\ lookup(api.ins[api.i + 1]) # <<>>
    /\ LET def == lookup(api.ins[api.i + 1])[1]
           r == read_operands(def, SubSeq(api.ins, api.i + 2, Len(api.ins)))
           f == format_instruction(def, r.operands)
       IN /\ r.panic = ""
          /\ api' = [api EXCEPT !.formatted = <<[at |-> api.i, error |-> f.error,
                                                 text |-> f.text]>>]
    /\ StaysIdle

DisassemblyNext == InstructionsToString \/ FormatInstruction

DisassemblySpec == DisassemblyInit /\ [][DisassemblyNext]_vars

\* C27: a round of the disassembly at a byte that is no defined opcode
\* pushes one ERROR line and moves on to the bytes after it, and no round
\* aborts.
C27_UndefinedOpcodeIsSkipped ==
    /\ [][(/\ api.i < Len(api.ins)
           /\ lookup(api.ins[api.i + 1]) = <<>>
           /\ api'.out # api.out)
          => (/\ Len(api'.out) = Len(api.out) + 1
              /\ api'.out[Len(api'.out)].error
              /\ api'.i > api.i)]_vars
    /\ [](api.panic = "")

\* C28: the disassembly of a compiled stream pushes one line for every
\* instruction, at the instruction's offset, none of them an ERROR line, and
\* format_instruction gives no ERROR text for any of its instructions.
C28_OneLinePerInstruction ==
    api.compiled =>
        /\ \A k \in 1..Len(api.out) :
                /\ ~api.out[k].error
                /\ api.out[k].at = instruction_offsets(api.ins, 0)[k]
        /\ api.i >= Len(api.ins) => Len(api.out) = Len(instruction_offsets(api.ins, 0))
        /\ api.formatted # <<>> => ~api.formatted[1].error


(***************************************************************************)
(* Hash literals: a literal is drawn with the order its HashMap iterates   *)
(* in, and compiled as an expression statement by a new compiler.          *)
(***************************************************************************)
MaxPairs == 3

HashKeys == {1, 2, 3, 10}

HashValues == {2, 4}

\* the literals of up to MaxPairs pairs, no key twice, in every order
HashLiterals ==
    UNION {{pairs \in [1..n -> [key : {IntegerLiteral(i64(k)) : k \in HashKeys},
                                value : {IntegerLiteral(i64(v)) : v \in HashValues}]] :
                \A i, j \in 1..n : i # j => pairs[i].key # pairs[j].key} : n \in 0..MaxPairs}

compiled_hash_literal(pairs) ==
    compile(Compiler_new, ProgramNode(<<ExpressionStatement(HashLiteral(pairs))>>))

HashLiteralInit ==
    /\ Idle
    /\ input = [name |-> "hash literal", arg |-> 0]
    /\ \E pairs \in HashLiterals : api = [op |-> "new", pairs |-> pairs, c |-> <<>>]

CompileHashLiteral ==
    /\ api.op = "new"
    /\ api' = [api EXCEPT !.op = "compile", !.c = <<compiled_hash_literal(api.pairs)>>]
    /\ StaysIdle

HashLiteralNext == CompileHashLiteral

HashLiteralSpec == HashLiteralInit /\ [][HashLiteralNext]_vars

\* the same pairs in another order
is_reordering(q, pairs) ==
    /\ Len(q) = Len(pairs)
    /\ \A i \in 1..Len(pairs) : \E j \in 1..Len(q) : q[j] = pairs[i]

\* C29: a hash literal compiles to the constants and instructions of its
\* pairs taken in ascending order of the keys' text, key then value, then
\* HASH with the number of pairs (and the POP of the statement), and every
\* reordering of its pairs compiles to the same instructions and constants.
C29_HashLiteralOrder ==
    api.op = "compile" =>
        LET c == api.c[1]
            n == Len(api.pairs)
            q == CHOOSE r \in HashLiterals :
                    /\ is_reordering(r, api.pairs)
                    /\ \A i \in 1..(n - 1) : string_lt(to_string(r[i].key), to_string(r[i + 1].key))
        IN /\ c.status = "ok"
           /\ c.constants = [i \in 1..(2 * n) |->
                                IF i % 2 = 1 THEN Integer(q[(i + 1) \div 2].key.value)
                                ELSE Integer(q[i \div 2].value.value)]
           /\ current_instructions(c) =
                concat_instructions([i \in 1..(2 * n) |-> <<OP_CONSTANT, 0, i - 1>>])
                    \o <<OP_HASH, 0, n, OP_POP>>
           /\ \A r \in HashLiterals :
                is_reordering(r, api.pairs) =>
                    /\ current_instructions(compiled_hash_literal(r)) = current_instructions(c)
                    /\ compiled_hash_literal(r).constants = c.constants

\* {10: 2, 2: 4, 1: 2} was compiled with the keys in the order 1, 10, 2
C29_Witness ==
    /\ api.op = "compile"
    /\ Len(api.pairs) = 3
    /\ api.pairs[1].key = IntegerLiteral(i64(10))
    /\ api.pairs[2].key = IntegerLiteral(i64(2))
    /\ api.pairs[3].key = IntegerLiteral(i64(1))
    /\ api.c[1].constants[1] = Integer(i64(1))
    /\ api.c[1].constants[3] = Integer(i64(10))
    /\ api.c[1].constants[5] = Integer(i64(2))


(***************************************************************************)
(* Properties of the errors of compile and of the calls of the machine     *)
(***************************************************************************)
\* C31: when compile has returned for a program with a while statement, it
\* has returned an error; the compilation does not panic.
C31_UnsupportedIsError ==
    (input.name = S_while.name /\ status # "parsed") => status = "compile_err"


\* a CALL is about to run on a builtin with its arguments above it
calls_builtin ==
    /\ in_loop /\ current_op = OP_CALL
    /\ can_read(instructions(current_frame(VM)), current_frame(VM).ip + 1, 1)
    /\ Len(stack) > operand_u8
    /\ stack[Len(stack) - operand_u8].t = "BuiltinFunction"

StatementSources ==
    {S_two_expressions, S_let_only, S_expression_then_let, S_globals, S_arithmetic,
     S_if_else, S_if_false, S_if_greater, S_nested_if, S_if_let, S_if_empty}

\* C33: the statements of a program leave the stack as they found it: no
\* statement pops a value that is not there, and when the program has run the
\* stack is empty.
C33_StatementsStackNeutral ==
    input.name \in {s.name : s \in StatementSources} =>
        /\ ~(status = "err" /\ msg.text = "stack is empty")
        /\ status = "done" => stack = <<>>


\* C34: an assignment changes the variable it names and nothing else: at the
\* top level the global takes the value and the expression is Null, and an
\* assignment to a parameter inside a function leaves every global as it was.
C34_AssignmentChangesOnlyTarget ==
    /\ input.name = S_assignment.name /\ status = "done" =>
            globals = <<Integer(i64(20))>> /\ result = <<Integer(i64(20))>>
    /\ input.name = P_assign_local.name /\ globals # <<>> => globals[1] = Integer(i64(1))


\* C35: when compile has returned, with Ok or with an error, the compiler is
\* back in its first compilation scope and its symbol table is the one it was
\* called with: the table has no outer table, and a let compiled next defines
\* a GLOBAL symbol.
C35_ScopesBalanced ==
    status \in {"compiled", "compile_err"} =>
        /\ compiler.scope_index = 0
        /\ Len(compiler.scopes) = 1
        /\ Len(compiler.symbol_table) = 1
        /\ define(compiler.symbol_table, "later").symbol.scope = GLOBAL_SCOPE


\* C36: while the machine runs the code of a compiled program its frame stack
\* is never empty and frames_index is the number of frames: no step pops the
\* main frame.
C36_MainFrameStays ==
    [][input.name \in {s.name : s \in Sources} /\ frames # <<>> =>
            frames' # <<>> /\ frames_index' = Len(frames')]_vars


(***************************************************************************)
(* A session of the REPL: execute_line_for_repl is called line after line, *)
(* each call on the constants, the globals and the symbol table the call   *)
(* before returned.  api holds what the session carries.                   *)
(***************************************************************************)
MaxLines == 3

\* the lines typed, each with the name and value its let binds when the line
\* succeeds and the name it reads
ReplLine(source, binds, reads) == [text |-> source.name, binds |-> binds, reads |-> reads]

ReplLines ==
    {ReplLine(S_let_a_1, <<[name |-> "a", value |-> Integer(i64(1))]>>, ""),
     ReplLine(S_let_a_2, <<[name |-> "a", value |-> Integer(i64(2))]>>, ""),
     ReplLine(S_let_b_7, <<[name |-> "b", value |-> Integer(i64(7))]>>, ""),
     ReplLine(S_let_b_minus_true, <<>>, ""),
     ReplLine(S_let_c_undefined, <<>>, ""),
     ReplLine(S_read_a, <<>>, "a"),
     ReplLine(S_read_b, <<>>, "b")}

\* the match of run() on the opcode at ip; the lines of the session have no
\* hash literal and no index expression
run_instruction(m) ==
    LET op == instructions(current_frame(m))[current_frame(m).ip + 1]
    IN CASE op = OP_CONSTANT -> run_constant_instruction(m)
         [] op \in {OP_ADD, OP_SUB, OP_MUL, OP_DIV} -> run_arithmetic_operations(m, op)
         [] op \in {OP_EQUAL, OP_NOT_EQUAL, OP_GREATER_THAN} -> run_boolean_operations(m, op)
         [] op = OP_TRUE -> push(m, TRUE_OBJ)
         [] op = OP_FALSE -> push(m, FALSE_OBJ)
         [] op = OP_MINUS -> run_prefix_minus(m)
         [] op = OP_BANG -> run_prefix_bang(m)
         [] op = OP_SET_GLOBAL -> run_set_global_instruction(m)
         [] op = OP_GET_GLOBAL -> run_get_global_instruction(m)
         [] op = OP_SET_LOCAL -> run_set_local_instruction(m)
         [] op = OP_GET_LOCAL -> run_get_local_instruction(m)
         [] op = OP_ARRAY -> run_array_literal_instruction(m)
         [] op = OP_CLOSURE -> run_closure_instruction(m)
         [] op = OP_CALL -> run_call_expression(m)
         [] op = OP_ASSIGN_GLOBAL -> run_assign_global_instruction(m)
         [] op = OP_GET_BUILTIN -> run_get_builtin(m)
         [] op = OP_RETURN_VALUE -> run_return_value(m)
         [] op = OP_RETURN -> run_return(m)
         [] op = OP_POP -> run_pop(m)
         [] op = OP_JUMP_NOT_TRUTHY -> run_jump_not_truthy_instruction(m)
         [] op = OP_JUMP -> run_jump_instruction(m)
         [] op = OP_NULL -> push(m, NULL)
         [] op \in {OP_HASH, OP_INDEX} -> Panic(m, "not a line of the session")
         [] OTHER -> m

\* one iteration of the loop of run(): the handler, then `ip += 1`; a call
\* of a closure leaves the `ip += 1` to the end of the nested run()
run_iteration(m) ==
    CHOOSE r \in {IF h.status = "ok" /\ h.run_depth > m.run_depth THEN h ELSE step(h) :
                    h \in {run_instruction(m)}} : TRUE

\* run() from start to finish: the machine when run() returned Ok (status
\* "ok"), returned Err or panicked
RECURSIVE run(_)
run(m) ==
    CHOOSE r \in {IF v.status # "ok" THEN v
                  ELSE IF ~has_current_frame(v)
                  THEN Panic(v, "current_frame on an empty frame stack")
                  ELSE IF current_frame(v).ip < Len(instructions(current_frame(v)))
                  THEN run(run_iteration(v))
                  ELSE IF v.run_depth > 1 THEN run(advance_ip([v EXCEPT !.run_depth = @ - 1]))
                  ELSE v : v \in {m}} : TRUE

\* what the call returns after compile returned Ok: vm::VM::new_with_global_store
\* and run() on the bytecode
run_line(comp, store) ==
    CHOOSE r \in
        {IF machine.status = "panic"
         THEN [constants |-> comp.constants, globals |-> machine.globals,
               symbol_table |-> comp.symbol_table, output |-> "panic", result |-> <<>>]
         ELSE IF machine.status = "err"
         THEN [constants |-> comp.constants, globals |-> machine.globals,
               symbol_table |-> comp.symbol_table,
               output |-> "Woops! Executing bytecode failed", result |-> <<>>]
         ELSE IF machine.result = <<>>
         THEN [constants |-> comp.constants, globals |-> machine.globals,
               symbol_table |-> comp.symbol_table,
               output |-> "Woops! Stack top is empty", result |-> <<>>]
         ELSE [constants |-> comp.constants, globals |-> machine.globals,
               symbol_table |-> comp.symbol_table,
               output |-> "inspect", result |-> machine.result] :
            machine \in {run(VM_new_with_global_store(byte_code(comp), store))}} : TRUE

\* what execute_line_for_repl returns, with what it wrote
execute_line_for_repl(text, consts, store, symbol_table) ==
    CHOOSE r \in
        {IF comp.status = "panic"
         THEN [constants |-> consts, globals |-> store, symbol_table |-> symbol_table,
               output |-> "panic", result |-> <<>>]
         ELSE IF comp.status = "err"
         THEN [constants |-> comp.constants, globals |-> store,
               symbol_table |-> comp.symbol_table,
               output |-> "Woops! Compilation failed", result |-> <<>>]
         ELSE run_line(comp, store) :
            comp \in {compile(Compiler_new_with_state(symbol_table, consts),
                              parse_program(text))}} : TRUE

\* the line ran to its end: its let has bound its value
succeeded(r) == r.output \in {"inspect", "Woops! Stack top is empty"}

ReplInit ==
    /\ Idle
    /\ input = [name |-> "repl", arg |-> 0]
    /\ api = [op |-> "start", constants |-> <<>>, globals |-> <<>>,
              symbol_table |-> <<SymbolTable_new>>, lines |-> 0, reads |-> "",
              output |-> "", result |-> <<>>, bound |-> [n \in {} |-> NULL]]

\* the names bound so far with their values, after a line that bound binds
bind(bound, binds) ==
    [n \in DOMAIN bound \cup {binds[k].name : k \in 1..Len(binds)} |->
        IF \E k \in 1..Len(binds) : binds[k].name = n THEN binds[1].value ELSE bound[n]]

ExecuteLine ==
    /\ api.op \in {"start", "line"}
    /\ api.output # "panic"
    /\ api.lines < MaxLines
    /\ \E l \in ReplLines :
         \E r \in {execute_line_for_repl(l.text, api.constants, api.globals, api.symbol_table)} :
            api' = [op |-> "line", constants |-> r.constants, globals |-> r.globals,
                    symbol_table |-> r.symbol_table, lines |-> api.lines + 1,
                    reads |-> l.reads, output |-> r.output, result |-> r.result,
                    bound |-> bind(api.bound, IF succeeded(r) THEN l.binds ELSE <<>>)]
    /\ StaysIdle

ReplNext == ExecuteLine

ReplSpec == ReplInit /\ [][ReplNext]_vars

\* C37: after every line of a session, failed lines included, every name a
\* let has bound resolves to a GLOBAL symbol whose index holds, in the globals
\* the session carries, the value the name was last bound to, and a line that
\* reads such a name yields that value.
C37_SessionAgrees ==
    api.op = "line" /\ api.output # "panic" =>
        /\ \A n \in DOMAIN api.bound :
              LET r == resolve(api.symbol_table, Len(api.symbol_table), n)
              IN /\ r.symbol # <<>>
                 /\ IF r.symbol = <<>> THEN FALSE
                    ELSE /\ r.symbol[1].scope = GLOBAL_SCOPE
                         /\ r.symbol[1].index < Len(api.globals)
                         /\ IF r.symbol[1].index < Len(api.globals)
                            THEN api.globals[r.symbol[1].index + 1] = api.bound[n]
                            ELSE FALSE
        /\ api.reads \in DOMAIN api.bound => api.result = <<api.bound[api.reads]>>


\* C38: a name that is also the name of a builtin resolves as any other name:
\* when an enclosing table has bound it with define and no table between has,
\* resolve from the inner table returns the enclosing binding, the GLOBAL
\* symbol as it is or a FREE symbol for a local one, never the BUILTIN symbol.
C38_UserBindingShadowsBuiltin ==
    api.op = "resolve" /\ api.k > 1
        /\ api.name \in {BUILTIN_FUNCTIONS[i][2] : i \in 1..Len(BUILTIN_FUNCTIONS)} =>
        LET user == {j \in 1..api.k : \E d \in 1..Len(api.tables[j].defined) :
                                        api.tables[j].defined[d].symbol.name = api.name}
        IN user # {} /\ api.k \notin user =>
              /\ api.ret # <<>>
              /\ IF api.ret = <<>> THEN FALSE ELSE api.ret[1].scope # BUILTIN_SCOPE

====
